---------------------------- MODULE Spec2Model ----------------------------
(***************************************************************************)
(* A state-machine model of kami, a self-play reinforcement-learning       *)
(* engine: the replay buffer (src/src/replaybuffer.h), the MCTS tree       *)
(* (src/kami/mcts.h), the search and trainer workers                       *)
(* (src/kami/selfplay.cpp), the evaluator (src/src/evaluate.cpp) and the   *)
(* model handle (src/src/nn/nn.cpp).                                       *)
(*                                                                         *)
(* The module holds several specifications over one set of variables; a    *)
(* specification leaves the variables of the components it does not run    *)
(* at their initial values.                                                *)
(*   SpecBuf      the replay buffer driven through its public interface    *)
(*   SpecBufConc  search workers adding and a trainer sampling, step by    *)
(*                step under the buffer's mutex                            *)
(*   SpecTree     one MCTS tree driven through its public interface        *)
(*   SpecTrain    the trainers, statement by statement, with the model,    *)
(*                the file at model_path and the buffer                    *)
(*   SpecSelfplay a search worker, statement by statement, beside a        *)
(*                trainer                                                  *)
(*   SpecEval     one call of kami::eval                                   *)
(*   SpecOrder    the owners of trees: SpecSelfplay or SpecEval            *)
(*   SpecCodec    the move codec applied to one move of one position       *)
(*   SpecStop     Selfplay::stop beside the worker and the trainer         *)
(*   FairStop     SpecStop with every thread scheduled again and again     *)
(*   SpecPgn      Selfplay::get_next_pgn beside worker and trainer         *)
(*   FairPgn      SpecPgn with every thread scheduled again and again      *)
(*   SpecNN       threads calling one model handle, lock by lock           *)
(*   SpecFault    SpecStop with a search worker's step throwing            *)
(*   SpecExpand   the arithmetic of one MCTS::expand under drawn options   *)
(***************************************************************************)
EXTENDS Integers, Sequences, FiniteSets, TLC

(***************************************************************************)
(* Bounds of the model.                                                    *)
(***************************************************************************)
\* replaybuffer_size (options; capacity C of the replay buffer)
bufsize == 2
\* how many add calls a run makes at most
MaxAdds == 5
\* the largest n passed to select_batch
MaxBatch == 2
\* search workers adding concurrently in SpecBufConc
NumProducers == 2
\* how many add calls the search workers of SpecBufConc make at most
MaxCalls == 4

(***************************************************************************)
(* Helpers.                                                                *)
(***************************************************************************)
Range(s) == {s[i] : i \in DOMAIN s}

Min(a, b) == IF a < b THEN a ELSE b

Max(a, b) == IF a > b THEN a ELSE b

VARIABLES
    \* ---- ReplayBuffer (src/src/replaybuffer.h:95-100)
    input_buffer,    \* slot -> observation
    lmm_buffer,      \* slot -> legal move mask
    mcts_buffer,     \* slot -> target policy
    result_buffer,   \* slot -> target value
    write_index,
    total,
    buffer_mut,      \* the thread holding buffer_mut, or Free
    \* ---- callers of the buffer
    added,           \* history: the argument tuples of the add calls, in order
    dst,             \* the tuples the last select_batch copied out
    bpc,             \* search worker -> its position inside add
    barg,            \* search worker -> the tuple it is adding
    tpc,             \* the trainer's position (wait loop, select_batch)
    sel_i,           \* select_batch: loop counter i
    sel_source,      \* select_batch: source
    sel_cur,         \* select_batch: the sample being copied
    sel_n,           \* select_batch: n
    target_count,    \* training_main: target_count
    \* ---- one MCTS object driven through its interface (SpecTree)
    tree,            \* the MCTS object: nodes, env, target
    lastop,          \* history: the last call made on the tree
    pre,             \* history: the environment when the last select began
    \* ---- Selfplay and its trainers (src/kami/selfplay.cpp)
    status,          \* Selfplay::status
    model,           \* the production model: generation, weights
    model_path,      \* the file at model_path: what write saved there
    trainer,         \* trainer -> the locals of its training_main
    \* ---- the search workers (Selfplay::inference_main)
    worker,          \* worker -> the locals of its inference_main
    trees,           \* worker -> slot -> the MCTS object trees[i]
    treeops,         \* history: worker -> slot -> the calls made on trees[i]
    partial_trajectories, \* worker -> the count it last published
    wants_pgn,       \* Selfplay::wants_pgn
    ret_pgn,         \* Selfplay::ret_pgn
    appended,        \* history: for each add, the generation at capture and at add
    games_played,    \* history: the games the workers have finished
    \* ---- one call of kami::eval (src/src/evaluate.cpp)
    ev,              \* the locals of eval
    candidate,       \* candidate_model
    etrees,          \* slot -> the MCTS object trees[i] of eval
    etreeops,        \* history: slot -> the calls made on trees[i] of eval
    owner,           \* the tree owner this run follows: a worker or eval
    \* ---- the move codec (src/kami/env.h: Env::encode, Env::decode)
    codec,           \* one position, one of its moves and what the codec made of it
    \* ---- the control thread (src/kami/kami.cpp): its calls of stop and get_next_pgn
    cli,             \* the locals of the call in progress and what the calls returned
    \* ---- one NN handle and the threads calling it (src/src/nn/nn.cpp)
    nn,              \* mut, generation, the weights, and each thread's call
    \* ---- one call of MCTS::expand under drawn options (src/kami/mcts.h)
    ex               \* the options, the call's inputs and what the call computed

bufVars == <<input_buffer, lmm_buffer, mcts_buffer, result_buffer,
             write_index, total, buffer_mut>>

callVars == <<added, dst>>

concVars == <<bpc, barg, tpc, sel_i, sel_source, sel_cur, sel_n, target_count>>

treeVars == <<tree, lastop, pre>>

\* everything outside the replay buffer specifications
trainVars == <<status, model, model_path, trainer>>

selfplayVars == <<worker, trees, treeops, partial_trajectories, wants_pgn,
                  ret_pgn, appended, games_played>>

evalVars == <<ev, candidate, etrees, etreeops, owner>>

codecVars == <<codec>>

cliVars == <<cli>>

nnVars == <<nn>>

exVars == <<ex>>

nonBufVars == <<treeVars, trainVars, selfplayVars, evalVars, codecVars, cliVars, nnVars, exVars>>

\* everything outside the tree specification
nonTreeVars == <<bufVars, callVars, concVars, trainVars, selfplayVars, evalVars,
                 codecVars, cliVars, nnVars, exVars>>

vars == <<bufVars, callVars, concVars, treeVars, trainVars, selfplayVars, evalVars,
          codecVars, cliVars, nnVars, exVars>>

(***************************************************************************)
(* Replay buffer: values.                                                  *)
(***************************************************************************)
Slots == 0 .. (bufsize - 1)

\* What the arrays hold before any add: new float[] leaves them
\* uninitialized, so each slot is whatever the allocator hands out (one of
\* these per slot; never a tuple a caller passed).
Garbage == {0, -1}

\* buffer_mut when no thread holds it (thread ids are 0, 1, 2, ...)
NoThread == 0 - 1

Free == NoThread

Tuple(i, l, m, r) == [input |-> i, lmm |-> l, mcts |-> m, result |-> r]

\* The tuple stored in a slot.
SlotTuple(s) ==
    Tuple(input_buffer[s], lmm_buffer[s], mcts_buffer[s], result_buffer[s])

\* The arguments of the k-th add call of a run (k = 1, 2, ...): the
\* observation, mask and policy are tagged with k, so that a tuple's
\* provenance can be read off its components; the target value is a win
\* or a loss.
AddArgs(k) == {Tuple(k, k, k, IF k % 2 = 0 THEN 1 ELSE 0 - 1)}

InitBuffer ==
    /\ \E g \in [Slots -> Garbage] :
          /\ input_buffer = g
          /\ lmm_buffer = g
          /\ mcts_buffer = g
          /\ result_buffer = g
    /\ write_index = 0
    /\ total = 0
    /\ buffer_mut = Free

InitCallers ==
    /\ added = <<>>
    /\ dst = <<>>

InitConc ==
    /\ bpc = [p \in 1 .. NumProducers |-> "idle"]
    /\ barg = [p \in 1 .. NumProducers |-> Tuple(0, 0, 0, 0)]
    /\ tpc = "wait"
    /\ sel_i = 0
    /\ sel_source = 0
    /\ sel_cur = Tuple(0, 0, 0, 0)
    /\ sel_n = 0
    /\ target_count = bufsize

(***************************************************************************)
(* The game.  The rules engine (neocortex: positions, move generation,     *)
(* check detection) is not part of the sources; Env wraps it.  A small     *)
(* game stands in for it: a pile of stones, a move takes one or two, the   *)
(* player to move with no stone left has no move and is checkmated when    *)
(* the last stone was taken alone, stalemated when two were taken, and a   *)
(* game of HalfmoveLimit plies is drawn.  White moves first.               *)
(***************************************************************************)
\* the largest pile a game starts from
MaxPile == 4
\* the halfmove clock at which terminal_str declares a draw
HalfmoveLimit == 4

RECURSIVE SumSeq(_)
SumSeq(h) == IF h = <<>> THEN 0 ELSE h[1] + SumSeq(Tail(h))

\* Env(): white to move, empty history, the start position
Env(start) == [history |-> <<>>, curturn |-> 1, start |-> start]

Pile(e) == e.start - SumSeq(e.history)

ncPositionGetCTM(e) == IF Len(e.history) % 2 = 0 THEN "white" ELSE "black"

ncPositionHalfmoveClock(e) == Len(e.history)

ncPositionIsCheck(e) ==
    /\ Pile(e) = 0
    /\ e.history # <<>>
    /\ e.history[Len(e.history)] = 1

\* Env::actions: the action indices of the legal moves, in move order
actions(e) ==
    IF Pile(e) >= 2 THEN <<1, 2>> ELSE IF Pile(e) = 1 THEN <<1>> ELSE <<>>

ply(e) == Len(e.history)

turn(e) == e.curturn

\* Env::push and Env::pop: make/unmake the move, flip curturn
EnvPush(e, action) ==
    [e EXCEPT !.history = Append(@, action), !.curturn = 0 - @]

EnvPop(e) ==
    [e EXCEPT !.history = SubSeq(@, 1, Len(@) - 1), !.curturn = 0 - @]

\* values are integers in units of 1 / VUnit
VUnit == 1

\* Env::terminal_str: [term, value]; value is only set when term
terminal(e) ==
    IF ncPositionHalfmoveClock(e) >= HalfmoveLimit
        THEN [term |-> TRUE, value |-> 0]
    ELSE IF Len(actions(e)) > 0
        THEN [term |-> FALSE, value |-> 0]
    ELSE IF ncPositionIsCheck(e)
        THEN [term |-> TRUE,
              value |-> IF ncPositionGetCTM(e) = "white" THEN 0 - VUnit ELSE VUnit]
    ELSE [term |-> TRUE, value |-> 0]

\* Env::observe: the observation is a function of the position and the
\* side to move
observe(e) == [history |-> e.history, start |-> e.start]

(***************************************************************************)
(* MCTS (src/kami/mcts.h).  A tree is [nodes, env, target]: nodes maps the *)
(* path of actions from the root to the Node there (the root is <<>>; a    *)
(* node's parent is its path without the last action, its children are     *)
(* the one-longer paths, in the order expand created them); target is a    *)
(* path or nullptr.  Rationals are pairs <<numerator, denominator>>.       *)
(***************************************************************************)
nullptr == <<0 - 1>>

\* MCTS(): the options, as rationals where they are floats
cPUCT == <<1, 1>>

force_expand_unvisited == FALSE

unvisited_node_value == <<1, 1>>

scale_cpuct_by_actions == FALSE

noise_weight == <<1, 2>>

bootstrap_weight == <<0, 1>>

bootstrap_amp == <<3, 4>>

Abs(x) == IF x < 0 THEN 0 - x ELSE x

RECURSIVE GCD(_, _)
GCD(a, b) == IF b = 0 THEN a ELSE GCD(b, a % b)

\* a rational in lowest terms, the denominator positive
Rat(num, den) ==
    LET g == GCD(Abs(num), Abs(den))
        sg == IF den < 0 THEN 0 - 1 ELSE 1
    IN  IF g = 0 THEN <<0, 1>> ELSE <<sg * (num \div g), sg * (den \div g)>>

RatSub(x, y) == Rat(x[1] * y[2] - y[1] * x[2], x[2] * y[2])

RatAdd(x, y) == Rat(x[1] * y[2] + y[1] * x[2], x[2] * y[2])

RatMul(x, y) == Rat(x[1] * y[1], x[2] * y[2])

\* x > y * sqrt(n), exactly, for rationals x, y and an integer n >= 0
GreaterThanTimesSqrt(x, y, n) ==
    LET g1 == GCD(Abs(x[1]), Abs(y[1]))
        g2 == GCD(x[2], y[2])
        a == IF g1 = 0 THEN 0 ELSE (Abs(x[1]) \div g1) * (y[2] \div g2)
        b == IF g1 = 0 THEN 0 ELSE (Abs(y[1]) \div g1) * (x[2] \div g2)
    IN  IF n = 0 \/ y[1] = 0 THEN x[1] > 0
        ELSE IF x[1] > 0 /\ y[1] < 0 THEN TRUE
        ELSE IF x[1] <= 0 /\ y[1] > 0 THEN FALSE
        ELSE IF x[1] > 0 THEN a * a > n * b * b
        ELSE a * a < n * b * b

\* Node(): n = 0, w = 0, p = 0, action = -1; w is kept in units of 1/(2 VUnit)
Node(action, p, t) == [n |-> 0, w |-> 0, p |-> p, action |-> action, turn |-> t]

parent(path) == SubSeq(path, 1, Len(path) - 1)

\* node->children, in vector order
children(nodes, path) ==
    LET all == actions(Env(MaxPile))
    IN  SelectSeq([i \in 1 .. Len(all) |-> Append(path, all[i])],
                  LAMBDA c : c \in DOMAIN nodes)

\* Node::q(def)
q(node, def) == IF node.n > 0 THEN Rat(node.w, 2 * VUnit * node.n) ELSE def

\* a plausible slip: the visit is counted twice
RECURSIVE backprop_twice(_, _, _)
backprop_twice(nodes, path, value) ==
    LET upd == [nodes EXCEPT ![path].n = @ + 2,
                             ![path].w = @ + VUnit + value * nodes[path].turn]
    IN  IF path # <<>> THEN backprop_twice(upd, parent(path), value) ELSE upd

\* a plausible slip: the visit is not passed on to the parent
backprop_no_parent(nodes, path, value) ==
    [nodes EXCEPT ![path].n = @ + 1,
                  ![path].w = @ + VUnit + value * nodes[path].turn]

\* Node::backprop: n += 1; w += 0.5 + value * turn / 2; then the parent
RECURSIVE backprop(_, _, _)
backprop(nodes, path, value) ==
    LET upd == [nodes EXCEPT ![path].n = @ + 1,
                             ![path].w = @ + VUnit + value * nodes[path].turn]
    IN  IF path # <<>> THEN backprop(upd, parent(path), value) ELSE upd

\* a plausible slip: the loop stops one level short of the root
RECURSIVE pop_to_root_short(_)
pop_to_root_short(t) ==
    IF Len(t.target) <= 1 THEN [t EXCEPT !.target = nullptr]
    ELSE pop_to_root_short([t EXCEPT !.env = EnvPop(@), !.target = parent(@)])

\* while (target != root) { env.pop(); target = target->parent; } target = nullptr
RECURSIVE pop_to_root(_)
pop_to_root(t) ==
    IF t.target = <<>> THEN [t EXCEPT !.target = nullptr]
    ELSE pop_to_root([t EXCEPT !.env = EnvPop(@), !.target = parent(@)])

\* MCTS(): a root with turn = -env.turn()
MCTS(start) ==
    [nodes |-> (<<>> :> Node(0 - 1, <<0, 1>>, 0 - turn(Env(start)))),
     env |-> Env(start),
     target |-> nullptr,
     dangling |-> FALSE]

\* MCTS::n
mcts_n(t) == t.nodes[<<>>].n

\* the PUCT score of child c against child d of a node visited pn times:
\* uct(c) > uct(d), where uct = q + p * cpuct * sqrt(pn) / (n + 1)
uct_greater(c, d, pn, cpuct) ==
    LET qc == q(c, RatMul(unvisited_node_value, <<c.turn, 1>>))
        qd == q(d, RatMul(unvisited_node_value, <<d.turn, 1>>))
        ec == RatMul(RatMul(c.p, cpuct), <<1, c.n + 1>>)
        ed == RatMul(RatMul(d.p, cpuct), <<1, d.n + 1>>)
    IN  GreaterThanTimesSqrt(RatSub(qc, qd), RatSub(ed, ec), pn)

\* the loop over target->children: the first child whose uct is the largest
RECURSIVE best_child(_, _, _, _, _)
best_child(nodes, kids, i, best, pn) ==
    IF i > Len(kids) THEN best
    ELSE LET cpuct == IF scale_cpuct_by_actions
                         THEN RatMul(cPUCT, <<1, Len(kids)>>) ELSE cPUCT
         IN  IF uct_greater(nodes[kids[i]], nodes[best], pn, cpuct)
                THEN best_child(nodes, kids, i + 1, kids[i], pn)
                ELSE best_child(nodes, kids, i + 1, best, pn)

\* MCTS::select: [tree, ready]
RECURSIVE select(_)
select(t0) ==
    LET t == IF t0.target = nullptr THEN [t0 EXCEPT !.target = <<>>] ELSE t0
        kids == children(t.nodes, t.target)
        tv == terminal(t.env)
        unvisited == SelectSeq(kids, LAMBDA c : t.nodes[c].n = 0)
    IN  IF kids = <<>>
        THEN IF tv.term
             THEN [tree |-> pop_to_root(
                       [t EXCEPT !.nodes = backprop(t.nodes, t.target, tv.value)]),
                   ready |-> FALSE]
             ELSE [tree |-> t, ready |-> TRUE]
        ELSE LET next ==
                   IF force_expand_unvisited /\ unvisited # <<>>
                   THEN unvisited[1]
                   ELSE best_child(t.nodes, kids, 2, kids[1], t.nodes[t.target].n)
             IN  select([t EXCEPT !.target = next,
                                  !.env = EnvPush(@, t.nodes[next].action)])

\* a plausible slip: the policy is divided by its sum over all moves (tsum)
\* and not over the legal ones (ptotal)
child_p_all_moves(nw, policy, noise, acts, i) ==
    LET tsum == SumSeq([j \in 1 .. 2 |-> policy[j]])
        total_noise == SumSeq([j \in 1 .. Len(acts) |-> noise[j]])
    IN  RatAdd(RatMul(RatSub(<<1, 1>>, nw), <<policy[acts[i]], tsum>>),
               RatMul(nw, <<noise[i], total_noise>>))

\* new_child->p with noise_weight nw: (1 - nw) * policy[a] / ptotal +
\* nw * (noise[i] / total_noise)
child_p(nw, policy, noise, acts, i) ==
    LET ptotal == SumSeq([j \in 1 .. Len(acts) |-> policy[acts[j]]])
        total_noise == SumSeq([j \in 1 .. Len(acts) |-> noise[j]])
    IN  RatAdd(RatMul(RatSub(<<1, 1>>, nw), <<policy[acts[i]], ptotal>>),
               RatMul(nw, <<noise[i], total_noise>>))

\* the priors expand gives the children under the configured noise_weight
prior(policy, noise, acts, i) == child_p(noise_weight, policy, noise, acts, i)

\* Env::bootstrap_value(window): the heuristic score of the position, in
\* [-1, 1]; the pile game scores a position by who is to move
bootstrap_value(e) == IF Pile(e) % 2 = 0 THEN 0 ELSE turn(e) * VUnit

\* MCTS::expand(policy, value, disable_bootstrap), with the noise drawn
expand(t, policy, noise, value, disable_bootstrap) ==
    LET acts == actions(t.env)
        tnode == t.nodes[t.target]
        kids == [c \in {Append(t.target, acts[i]) : i \in 1 .. Len(acts)} |->
                    LET i == CHOOSE j \in 1 .. Len(acts) : acts[j] = c[Len(c)]
                    IN  Node(acts[i], prior(policy, noise, acts, i), 0 - tnode.turn)]
        v1 == value * tnode.turn
        v2 == IF ~disable_bootstrap /\ bootstrap_weight[1] > 0
                 THEN ((bootstrap_weight[2] - bootstrap_weight[1]) * v1 * bootstrap_amp[2]
                       + bootstrap_weight[1] * bootstrap_value(t.env) * bootstrap_amp[1])
                      \div (bootstrap_weight[2] * bootstrap_amp[2])
                 ELSE v1
        grown == [c \in DOMAIN t.nodes \cup DOMAIN kids |->
                     IF c \in DOMAIN kids THEN kids[c] ELSE t.nodes[c]]
    IN  pop_to_root([t EXCEPT !.nodes = backprop(grown, t.target, v2)])

\* a plausible slip: the kept child becomes the root and env.push is left out
push_keeps_env(t, action) ==
    LET keep == {c \in DOMAIN t.nodes : c # <<>> /\ c[1] = action}
    IN  IF keep = {}
           THEN [t EXCEPT !.nodes = (<<>> :> t.nodes[<<>>]), !.dangling = TRUE]
           ELSE [t EXCEPT !.nodes = [c \in {Tail(k) : k \in keep} |->
                                        t.nodes[<<action>> \o c]]]

\* a plausible slip: the kept child is cleaned like its siblings, so the
\* new root comes without its subtree
push_cleans_next(t, action) ==
    IF <<action>> \notin DOMAIN t.nodes
       THEN [t EXCEPT !.nodes = (<<>> :> t.nodes[<<>>]), !.dangling = TRUE]
       ELSE [t EXCEPT !.nodes = (<<>> :> t.nodes[<<action>>]),
                      !.env = EnvPush(@, action)]

\* MCTS::push(action): the children for other actions are deleted; with a
\* child for the action, that child becomes the root and the environment
\* advances; without one it throws, and root->children is left holding the
\* deleted nodes (dangling)
push(t, action) ==
    LET keep == {c \in DOMAIN t.nodes : c # <<>> /\ c[1] = action}
    IN  IF keep = {}
           THEN [t EXCEPT !.nodes = (<<>> :> t.nodes[<<>>]), !.dangling = TRUE]
           ELSE [t EXCEPT !.nodes = [c \in {Tail(k) : k \in keep} |->
                                        t.nodes[<<action>> \o c]],
                          !.env = EnvPush(@, action)]

\* MCTS::pick(alpha): the actions it can return.  alpha < 0.1 is the
\* argmax loop (best_n = 0, best_action = -1); otherwise a child is drawn
\* with weight n^(1/alpha): any visited child, the first child when
\* rand() is 0, the last child when the loop falls through
pick(t, alpha_low) ==
    LET kids == children(t.nodes, <<>>)
        best_n == IF \E i \in 1 .. Len(kids) : t.nodes[kids[i]].n > 0
                     THEN CHOOSE m \in {t.nodes[kids[i]].n : i \in 1 .. Len(kids)} :
                              \A i \in 1 .. Len(kids) : t.nodes[kids[i]].n <= m
                     ELSE 0
        first == CHOOSE i \in 1 .. Len(kids) :
                    /\ t.nodes[kids[i]].n = best_n
                    /\ \A j \in 1 .. (i - 1) : t.nodes[kids[j]].n < best_n
    IN  IF alpha_low
           THEN IF best_n = 0 THEN {0 - 1} ELSE {t.nodes[kids[first]].action}
           ELSE {t.nodes[kids[i]].action : i \in {j \in 1 .. Len(kids) : t.nodes[kids[j]].n > 0}}
                \cup {t.nodes[kids[1]].action, t.nodes[kids[Len(kids)]].action}

\* MCTS::snapshot: action -> c.n / (root.n - 1), as <<c.n, root.n - 1>>
snapshot(t) ==
    LET kids == children(t.nodes, <<>>)
    IN  [a \in {t.nodes[kids[i]].action : i \in 1 .. Len(kids)} |->
            <<t.nodes[<<a>>].n, mcts_n(t) - 1>>]

\* MCTS::reset: a fresh environment and a fresh root
reset(t) == MCTS(t.env.start)

\* what the network can answer for a leaf: a policy weight per action, a
\* noise draw per child, a value
Policies == [{1, 2} -> {1, 2}]

Noises == [{1, 2} -> {1, 2}]

Values == {0 - VUnit, 0, VUnit}

InitTreeIdle ==
    /\ tree = MCTS(MaxPile)
    /\ lastop = "init"
    /\ pre = Env(MaxPile)

(***************************************************************************)
(* ReplayBuffer's interface, each call as one step (the whole body runs    *)
(* under lock_guard(buffer_mut)).                                          *)
(***************************************************************************)
size == bufsize

count == total

\* a plausible slip: the write index is not wrapped
add_nowrap(input, lmm, mcts, result) ==
    /\ input_buffer' = [input_buffer EXCEPT ![write_index] = input]
    /\ lmm_buffer' = [lmm_buffer EXCEPT ![write_index] = lmm]
    /\ mcts_buffer' = [mcts_buffer EXCEPT ![write_index] = mcts]
    /\ result_buffer' = [result_buffer EXCEPT ![write_index] = result]
    /\ write_index' = write_index + 1
    /\ total' = total + 1
    /\ UNCHANGED buffer_mut

add(input, lmm, mcts, result) ==
    /\ input_buffer' = [input_buffer EXCEPT ![write_index] = input]
    /\ lmm_buffer' = [lmm_buffer EXCEPT ![write_index] = lmm]
    /\ mcts_buffer' = [mcts_buffer EXCEPT ![write_index] = mcts]
    /\ result_buffer' = [result_buffer EXCEPT ![write_index] = result]
    /\ write_index' = (write_index + 1) % bufsize
    /\ total' = total + 1
    /\ UNCHANGED buffer_mut

\* select_batch(n) with the n values of rand() % bufsize given as sources:
\* the batch copied to the caller's arrays.
select_batch(sources) ==
    [i \in 1 .. Len(sources) |-> SlotTuple(sources[i])]

\* rand() % bufsize, n times
Sources(n) == [1 .. n -> Slots]

(***************************************************************************)
(* SpecBuf: a caller adds and samples through the interface.               *)
(***************************************************************************)
BufAdd ==
    /\ Len(added) < MaxAdds
    /\ \E t \in AddArgs(Len(added) + 1) :
          /\ add(t.input, t.lmm, t.mcts, t.result)
          /\ added' = Append(added, t)
    /\ UNCHANGED nonBufVars
    /\ UNCHANGED <<dst, concVars>>

BufSelectBatch ==
    /\ \E n \in 1 .. MaxBatch : \E sources \in Sources(n) :
          dst' = select_batch(sources)
    /\ UNCHANGED nonBufVars
    /\ UNCHANGED <<bufVars, added, concVars>>

(***************************************************************************)
(* The models (src/src/nn/nn.cpp) and the trainers' locals.  A model is    *)
(* [generation, weights]; weights name the training run that made them.   *)
(***************************************************************************)
\* training_threads
NumTrainers == 2

Trainers == 1 .. NumTrainers

\* NN::NN(width, height, features, psize): generation 0, fresh weights
NN == [generation |-> 0, weights |-> [trainer |-> 0, generation |-> 0]]

NoFile == [generation |-> 0 - 1, weights |-> [trainer |-> 0, generation |-> 0 - 1]]

\* NN::get_generation
get_generation(m) == m.generation

\* NN::NN(NN* other): the copy has other's generation and weights
NN_clone(other) == [generation |-> other.generation, weights |-> other.weights]

\* NN::train, as run by trainer t: new weights, ++generation
train(m, t) ==
    [generation |-> m.generation + 1,
     weights |-> [trainer |-> t, generation |-> m.generation + 1]]

\* NN::write(path): the archive holds the module and the generation
write(m) == [generation |-> m.generation, weights |-> m.weights]

\* NN::read(path): generation and module are loaded from the archive
read(file) == [generation |-> file.generation, weights |-> file.weights]

\* Selfplay::start has run: status RUNNING, each trainer at the top of
\* training_main's loop with target_count = size, target_from = 0
InitTrain ==
    /\ status = "RUNNING"
    /\ model = NN
    /\ model_path = NoFile
    /\ trainer = [t \in Trainers |->
                    [pc |-> "loop", cmodel |-> NN, eval_result |-> FALSE,
                     target_count |-> bufsize, target_from |-> 0, batch |-> <<>>,
                     \* history: eval threw in the round that is ending
                     threw |-> FALSE,
                     \* history: the adds made when the latest round began
                     started |-> 0 - 1]]

(***************************************************************************)
(* The search workers' locals (Selfplay::inference_main) and the record    *)
(* of the calls made on each tree.                                         *)
(***************************************************************************)
\* inference_threads
NumWorkers == 1

Workers == 1 .. NumWorkers

\* selfplay_batch
ibatch == 2

\* selfplay_nodes
nodes == 2

\* the pile Env() starts a selfplay or evaluation game from
StartPile == 2

TreeSlots == 0 .. (ibatch - 1)

\* the record of the calls on one tree: the last call, and whether some
\* call so far came out of order: a call other than expand right after a
\* select that returned true, or an expand not right after such a select
NoCalls == [last |-> "new", misordered |-> FALSE]

Called(rec, op) ==
    [last |-> op,
     misordered |-> \/ rec.misordered
                    \/ rec.last = "select_true" /\ op # "expand"
                    \/ op = "expand" /\ rec.last # "select_true"]

RECURSIVE CalledAll(_, _)
CalledAll(rec, ops) ==
    IF ops = <<>> THEN rec ELSE CalledAll(Called(rec, Head(ops)), Tail(ops))

\* Selfplay::start has run and each worker has built its trees: MCTS
\* trees[ibatch], empty trajectories, source_generation = the generation
InitSelfplayAt(start) ==
    /\ worker = [w \in Workers |->
                   [pc |-> "loop", i |-> 0, k |-> 0, value |-> 0, partials |-> 0,
                    source_generation |-> [i \in TreeSlots |-> get_generation(NN)],
                    trajectories |-> [i \in TreeSlots |-> <<>>],
                    batch |-> [i \in TreeSlots |-> [history |-> <<>>, start |-> 0]],
                    \* history: the request its exchange answered, and the
                    \* requests it answered with the PGN it wrote for each
                    req |-> 0, served |-> {}]]
    /\ trees = [w \in Workers |-> [i \in TreeSlots |-> MCTS(start)]]
    /\ treeops = [w \in Workers |-> [i \in TreeSlots |-> NoCalls]]
    /\ partial_trajectories = [w \in Workers |-> 0]
    /\ wants_pgn = FALSE
    /\ ret_pgn = <<>>
    /\ appended = {}
    /\ games_played = 0

InitSelfplay == InitSelfplayAt(StartPile)

(***************************************************************************)
(* The locals of kami::eval.                                               *)
(***************************************************************************)
\* evaluate_batch
ebatch == 2

\* evaluate_games
egames == 2

\* evaluate_nodes
enodes == 2

\* evaluate_target_pct
etarget == 75

EvalSlots == 0 .. (ebatch - 1)

\* eval has been entered with a candidate trained from the current model:
\* candidate_turns drawn, MCTS trees[ebatch], score = 0, games = 0
InitEval ==
    /\ \E turns \in [EvalSlots -> {0 - 1, 1}] :
          ev = [pc |-> "while", i |-> 0, j |-> 0, games |-> 0, score |-> 0,
                candidate_turns |-> turns, inputs |-> "cur", boff |-> 0,
                cur_batch_size |-> 0, cd_batch_size |-> 0,
                cur_targets |-> [b \in EvalSlots |-> 0],
                cd_targets |-> [b \in EvalSlots |-> 0],
                \* new float[...]: rows no position gives
                cur_inputs |-> [b \in EvalSlots |-> [history |-> <<>>, start |-> 0]],
                cd_inputs |-> [b \in EvalSlots |-> [history |-> <<>>, start |-> 0]],
                result |-> "running"]
    /\ candidate = train(NN_clone(NN), 1)
    /\ etrees = [i \in EvalSlots |-> MCTS(StartPile)]
    /\ etreeops = [i \in EvalSlots |-> NoCalls]

\* no move is being encoded
InitCodecIdle == codec = [pc |-> "idle"]

\* the control thread after Selfplay::start, between two commands
\* no thread calls the NN handle of SpecNN
InitNNIdle == nn = [pc |-> "idle"]

\* no expand call is being followed
InitExpandIdle == ex = [pc |-> "idle"]

InitCli ==
    cli = [pc |-> "idle", stops |-> 0, threw |-> FALSE, req |-> 0, ret |-> <<>>]

\* no eval is being followed
InitEvalIdle ==
    /\ ev = [pc |-> "idle"]
    /\ candidate = NN
    /\ etrees = [i \in EvalSlots |-> MCTS(StartPile)]
    /\ etreeops = [i \in EvalSlots |-> NoCalls]
    /\ owner = "worker"

InitSpecBuf == InitBuffer /\ InitCallers /\ InitConc /\ InitTreeIdle /\ InitTrain /\ InitSelfplay /\ InitEvalIdle /\ InitCodecIdle /\ InitCli /\ InitNNIdle /\ InitExpandIdle

NextBuf == BufAdd \/ BufSelectBatch

SpecBuf == InitSpecBuf /\ [][NextBuf]_vars

(***************************************************************************)
(* C4: for a buffer of capacity C, after K add calls (and no clear)        *)
(* count() = K, size() = C, exactly min(K, C) slots hold added tuples, the *)
(* j-th added tuple (0-based) is in slot j mod C until C further adds      *)
(* overwrite it, and so for K > C the buffer holds exactly the last C      *)
(* tuples added.                                                           *)
(***************************************************************************)
C4_RingHoldsLastAdds ==
    LET K == Len(added) IN
    /\ count = K
    /\ size = bufsize
    /\ Cardinality({s \in Slots : SlotTuple(s) \in Range(added)}) = Min(K, bufsize)
    /\ \A j \in 0 .. (K - 1) :
          j >= K - bufsize => SlotTuple(j % bufsize) = added[j + 1]
    /\ K > bufsize =>
          {SlotTuple(s) : s \in Slots} =
              {added[j + 1] : j \in (K - bufsize) .. (K - 1)}

\* more adds than slots: the ring has wrapped and overwritten its first slot
C4_Wrapped == Len(added) = bufsize + 1 /\ write_index = 1

(***************************************************************************)
(* C5: select_batch(n) copies only tuples from populated slots: in every   *)
(* buffer state, also with fewer than C tuples added, each of the n        *)
(* returned tuples equals a tuple previously passed to add.                *)
(***************************************************************************)
C5_SelectOnlyAdded == \A i \in 1 .. Len(dst) : dst[i] \in Range(added)

(***************************************************************************)
(* SpecBufConc: the buffer under concurrency.  NumProducers search workers *)
(* call add, the trainer waits for count() >= target_count and calls       *)
(* select_batch; each statement of add and select_batch is a step, and the *)
(* lock_guard at the top of both is the only synchronisation.              *)
(***************************************************************************)
Producers == 1 .. NumProducers

Trainer == 0

\* a plausible slip: the guard is missing and the body runs unlocked
lock_guard_missing(t) ==
    buffer_mut' = t

\* std::lock_guard<std::mutex> lock(buffer_mut): blocks until the mutex is
\* free, then holds it to the end of the function
lock_guard(t) ==
    /\ buffer_mut = Free
    /\ buffer_mut' = t

\* the search worker reaches replay_buffer.add(...) with a finished game's tuple
P_call(p) ==
    /\ bpc[p] = "idle"
    /\ Len(added) < MaxCalls
    /\ \E t \in AddArgs(Len(added) + 1) :
          /\ barg' = [barg EXCEPT ![p] = t]
          /\ added' = Append(added, t)
    /\ bpc' = [bpc EXCEPT ![p] = "lock"]
    /\ UNCHANGED nonBufVars
    /\ UNCHANGED <<bufVars, dst, tpc, sel_i, sel_source, sel_cur, sel_n, target_count>>

P_lock(p) ==
    /\ bpc[p] = "lock"
    /\ lock_guard(p)
    /\ bpc' = [bpc EXCEPT ![p] = "input"]
    /\ UNCHANGED nonBufVars
    /\ UNCHANGED <<input_buffer, lmm_buffer, mcts_buffer, result_buffer,
                   write_index, total, callVars, barg, tpc, sel_i, sel_source,
                   sel_cur, sel_n, target_count>>

P_input(p) ==
    /\ bpc[p] = "input"
    /\ input_buffer' = [input_buffer EXCEPT ![write_index] = barg[p].input]
    /\ bpc' = [bpc EXCEPT ![p] = "lmm"]
    /\ UNCHANGED nonBufVars
    /\ UNCHANGED <<lmm_buffer, mcts_buffer, result_buffer, write_index, total,
                   buffer_mut, callVars, barg, tpc, sel_i, sel_source, sel_cur,
                   sel_n, target_count>>

P_lmm(p) ==
    /\ bpc[p] = "lmm"
    /\ lmm_buffer' = [lmm_buffer EXCEPT ![write_index] = barg[p].lmm]
    /\ bpc' = [bpc EXCEPT ![p] = "mcts"]
    /\ UNCHANGED nonBufVars
    /\ UNCHANGED <<input_buffer, mcts_buffer, result_buffer, write_index, total,
                   buffer_mut, callVars, barg, tpc, sel_i, sel_source, sel_cur,
                   sel_n, target_count>>

P_mcts(p) ==
    /\ bpc[p] = "mcts"
    /\ mcts_buffer' = [mcts_buffer EXCEPT ![write_index] = barg[p].mcts]
    /\ bpc' = [bpc EXCEPT ![p] = "result"]
    /\ UNCHANGED nonBufVars
    /\ UNCHANGED <<input_buffer, lmm_buffer, result_buffer, write_index, total,
                   buffer_mut, callVars, barg, tpc, sel_i, sel_source, sel_cur,
                   sel_n, target_count>>

\* result_buffer[write_index++] = result
P_result(p) ==
    /\ bpc[p] = "result"
    /\ result_buffer' = [result_buffer EXCEPT ![write_index] = barg[p].result]
    /\ write_index' = write_index + 1
    /\ bpc' = [bpc EXCEPT ![p] = "mod"]
    /\ UNCHANGED nonBufVars
    /\ UNCHANGED <<input_buffer, lmm_buffer, mcts_buffer, total, buffer_mut,
                   callVars, barg, tpc, sel_i, sel_source, sel_cur, sel_n,
                   target_count>>

\* write_index %= bufsize
P_mod(p) ==
    /\ bpc[p] = "mod"
    /\ write_index' = write_index % bufsize
    /\ bpc' = [bpc EXCEPT ![p] = "total"]
    /\ UNCHANGED nonBufVars
    /\ UNCHANGED <<input_buffer, lmm_buffer, mcts_buffer, result_buffer, total,
                   buffer_mut, callVars, barg, tpc, sel_i, sel_source, sel_cur,
                   sel_n, target_count>>

\* ++total, then the guard's destructor releases the mutex
P_total(p) ==
    /\ bpc[p] = "total"
    /\ total' = total + 1
    /\ buffer_mut' = IF buffer_mut = p THEN Free ELSE buffer_mut
    /\ bpc' = [bpc EXCEPT ![p] = "idle"]
    /\ UNCHANGED nonBufVars
    /\ UNCHANGED <<input_buffer, lmm_buffer, mcts_buffer, result_buffer,
                   write_index, callVars, barg, tpc, sel_i, sel_source, sel_cur,
                   sel_n, target_count>>

\* training_sample_pct and rpb_train_pct (options)
training_sample_pct == 100

rpb_train_pct == 50

trajectories == (size * training_sample_pct) \div 100

target_incr == (size * rpb_train_pct) \div 100

\* training_main's wait loop: sleep while count() < target_count, else go on
\* to select_batch(inputs, lmm, mcts, results, trajectories)
T_wait ==
    /\ tpc = "wait"
    /\ IF count < target_count
          THEN UNCHANGED <<tpc, sel_n>>
          ELSE tpc' = "lock" /\ sel_n' = trajectories
    /\ UNCHANGED nonBufVars
    /\ UNCHANGED <<bufVars, callVars, bpc, barg, sel_i, sel_source, sel_cur,
                   target_count>>

T_lock ==
    /\ tpc = "lock"
    /\ lock_guard(Trainer)
    /\ tpc' = "pick"
    /\ sel_i' = 0
    /\ dst' = <<>>
    /\ UNCHANGED nonBufVars
    /\ UNCHANGED <<input_buffer, lmm_buffer, mcts_buffer, result_buffer,
                   write_index, total, added, bpc, barg, sel_source, sel_cur,
                   sel_n, target_count>>

\* for (i = 0; i < n; ++i) { int source = rand() % bufsize; ...
T_pick ==
    /\ tpc = "pick"
    /\ IF sel_i < sel_n
          THEN /\ \E source \in Slots : sel_source' = source
               /\ tpc' = "input"
               /\ UNCHANGED buffer_mut
          ELSE /\ buffer_mut' = IF buffer_mut = Trainer THEN Free ELSE buffer_mut
               /\ tpc' = "trained"
               /\ UNCHANGED sel_source
    /\ UNCHANGED nonBufVars
    /\ UNCHANGED <<input_buffer, lmm_buffer, mcts_buffer, result_buffer,
                   write_index, total, callVars, bpc, barg, sel_i, sel_cur,
                   sel_n, target_count>>

T_input ==
    /\ tpc = "input"
    /\ sel_cur' = [sel_cur EXCEPT !.input = input_buffer[sel_source]]
    /\ tpc' = "lmm"
    /\ UNCHANGED nonBufVars
    /\ UNCHANGED <<bufVars, callVars, bpc, barg, sel_i, sel_source, sel_n,
                   target_count>>

T_lmm ==
    /\ tpc = "lmm"
    /\ sel_cur' = [sel_cur EXCEPT !.lmm = lmm_buffer[sel_source]]
    /\ tpc' = "mcts"
    /\ UNCHANGED nonBufVars
    /\ UNCHANGED <<bufVars, callVars, bpc, barg, sel_i, sel_source, sel_n,
                   target_count>>

T_mcts ==
    /\ tpc = "mcts"
    /\ sel_cur' = [sel_cur EXCEPT !.mcts = mcts_buffer[sel_source]]
    /\ tpc' = "result"
    /\ UNCHANGED nonBufVars
    /\ UNCHANGED <<bufVars, callVars, bpc, barg, sel_i, sel_source, sel_n,
                   target_count>>

\* dst_result[i] = result_buffer[source]; sample i is complete
T_result ==
    /\ tpc = "result"
    /\ LET done == [sel_cur EXCEPT !.result = result_buffer[sel_source]]
       IN  sel_cur' = done /\ dst' = Append(dst, done)
    /\ sel_i' = sel_i + 1
    /\ tpc' = "pick"
    /\ UNCHANGED nonBufVars
    /\ UNCHANGED <<bufVars, added, bpc, barg, sel_source, sel_n, target_count>>

\* the round ends (here: the candidate is rejected): target_count += target_incr
T_round ==
    /\ tpc = "trained"
    /\ target_count' = target_count + target_incr
    /\ tpc' = "wait"
    /\ UNCHANGED nonBufVars
    /\ UNCHANGED <<bufVars, callVars, bpc, barg, sel_i, sel_source, sel_cur, sel_n>>

NextBufConc ==
    \/ \E p \in Producers :
          \/ P_call(p) \/ P_lock(p) \/ P_input(p) \/ P_lmm(p)
          \/ P_mcts(p) \/ P_result(p) \/ P_mod(p) \/ P_total(p)
    \/ T_wait \/ T_lock \/ T_pick \/ T_input \/ T_lmm \/ T_mcts \/ T_result
    \/ T_round

SpecBufConc == InitSpecBuf /\ [][NextBufConc]_vars

(***************************************************************************)
(* C6: with several search workers adding concurrently and a trainer       *)
(* sampling, a reader never observes a partially written slot: every tuple *)
(* select_batch returned has its observation, mask, policy and value from  *)
(* one single add call; two adds are never inside the buffer at once (so   *)
(* they never write the same slot), and no increment of write_index or     *)
(* total is lost.                                                          *)
(***************************************************************************)
InAdd == {p \in Producers : bpc[p] \in {"input", "lmm", "mcts", "result", "mod", "total"}}

InSelect == IF tpc \in {"pick", "input", "lmm", "mcts", "result"} THEN {Trainer} ELSE {}

CompletedAdds == Len(added) - Cardinality({p \in Producers : bpc[p] # "idle"})

C6_NoTornSlot ==
    /\ \A i \in 1 .. Len(dst) : dst[i] \in Range(added)
    /\ Cardinality(InAdd \cup InSelect) <= 1
    /\ InAdd = {} => /\ total = CompletedAdds
                     /\ write_index = CompletedAdds % bufsize

\* the trainer has copied a full batch out while a search worker is blocked
\* on the mutex and another add has wrapped the ring
C6_SampledUnderContention ==
    /\ tpc = "pick"
    /\ Len(dst) = trajectories
    /\ \E p \in Producers : bpc[p] = "lock"
    /\ total > bufsize

(***************************************************************************)
(* SpecTree: one tree driven through its interface.  lastop is the last    *)
(* call made on the tree and pre the environment before that call.         *)
(***************************************************************************)
\* the visits after which no further selection is made on a root
MaxVisits == 4

\* an observation and a target policy that no position gives
NoObservation == [history |-> <<>>, start |-> 0]

NoPolicy == <<>>

\* the buffer before the first add of a search worker
InitBufferIdle ==
    /\ input_buffer = [s \in Slots |-> NoObservation]
    /\ lmm_buffer = [s \in Slots |-> 0]
    /\ mcts_buffer = [s \in Slots |-> NoPolicy]
    /\ result_buffer = [s \in Slots |-> 0]
    /\ write_index = 0
    /\ total = 0
    /\ buffer_mut = Free

InitTree ==
    /\ \E start \in 2 .. MaxPile :
          /\ tree = MCTS(start)
          /\ pre = Env(start)
    /\ lastop = "init"

M_select ==
    /\ ~tree.dangling
    /\ tree.target = nullptr
    /\ mcts_n(tree) < MaxVisits
    /\ LET r == select(tree)
       IN  /\ tree' = r.tree
           /\ lastop' = IF r.ready THEN "select_true" ELSE "select_false"
    /\ pre' = tree.env
    /\ UNCHANGED nonTreeVars

M_expand ==
    /\ ~tree.dangling
    /\ tree.target # nullptr
    /\ \E policy \in Policies, noise \in Noises, value \in Values, db \in BOOLEAN :
          tree' = expand(tree, policy, noise, value, db)
    /\ lastop' = "expand"
    /\ UNCHANGED pre
    /\ UNCHANGED nonTreeVars

M_push ==
    /\ ~tree.dangling
    /\ tree.target = nullptr
    /\ children(tree.nodes, <<>>) # <<>>
    /\ \E alpha_low \in BOOLEAN :
          \E action \in pick(tree, alpha_low) :
             /\ tree' = push(tree, action)
             /\ lastop' = IF tree'.dangling THEN "push_throws" ELSE "push"
    /\ pre' = tree.env
    /\ UNCHANGED nonTreeVars

M_reset ==
    /\ ~tree.dangling
    /\ tree' = reset(tree)
    /\ lastop' = "reset"
    /\ pre' = tree.env
    /\ UNCHANGED nonTreeVars

InitSpecTree == InitBufferIdle /\ InitCallers /\ InitConc /\ InitTree /\ InitTrain /\ InitSelfplay /\ InitEvalIdle /\ InitCodecIdle /\ InitCli /\ InitNNIdle /\ InitExpandIdle

NextTree == M_select \/ M_expand \/ M_push \/ M_reset

SpecTree == InitSpecTree /\ [][NextTree]_vars

\* the sum of the visit counts of the children of the node at path
ChildVisits(ns, path) ==
    LET kids == children(ns, path)
    IN  SumSeq([i \in 1 .. Len(kids) |-> ns[kids[i]].n])

\* C7: after select returns true, target is a node without children whose
\* state is not terminal and the environment's ply is the root's ply plus
\* the depth of target; after the expand that follows, and after a select
\* that returns false, target is null and the environment's ply and side to
\* move are those before the select.
C7_SelectExpandProtocol ==
    /\ lastop = "select_true" =>
          /\ tree.target # nullptr
          /\ tree.target \in DOMAIN tree.nodes
          /\ children(tree.nodes, tree.target) = <<>>
          /\ ~terminal(tree.env).term
          /\ ply(tree.env) = ply(pre) + Len(tree.target)
    /\ lastop \in {"expand", "select_false"} =>
          /\ tree.target = nullptr
          /\ ply(tree.env) = ply(pre)
          /\ turn(tree.env) = turn(pre)

\* a select that ran two levels down to a terminal leaf of a tree whose
\* root was committed before, and came back
C7_DeepSelectReturned ==
    /\ lastop = "select_false"
    /\ ply(pre) >= 1
    /\ \E c \in DOMAIN tree.nodes :
          Len(c) >= 2 /\ tree.nodes[c].n >= 1 /\ children(tree.nodes, c) = <<>>

\* C9: a root that has been expanded has n = 1 + the sum of its children's
\* n, after any sequence of select/expand cycles and root commits.
C9_RootVisits ==
    children(tree.nodes, <<>>) # <<>> =>
        mcts_n(tree) = 1 + ChildVisits(tree.nodes, <<>>)

\* a committed root that carries three visits and children of its own
C9_CommittedRoot ==
    /\ lastop = "push"
    /\ children(tree.nodes, <<>>) # <<>>
    /\ mcts_n(tree) >= 3

\* C10, as the code has it: every node that has children has n = 1 + the
\* sum of its children's n; a node without children counts the selections
\* that ended at it (0 for a child never selected, any number for a leaf
\* holding a terminal state).
C10_ExpandedNodeVisits ==
    \A c \in DOMAIN tree.nodes :
        children(tree.nodes, c) # <<>> =>
            tree.nodes[c].n = 1 + ChildVisits(tree.nodes, c)

\* a terminal leaf reached by two selections, below an expanded node that
\* is not the root
C10_TerminalLeafRevisited ==
    /\ tree.target = nullptr
    /\ \E c \in DOMAIN tree.nodes :
          /\ Len(c) >= 2
          /\ children(tree.nodes, c) = <<>>
          /\ tree.nodes[c].n >= 2

\* C10 as stated: after a select/expand cycle every node has n = 1 + the sum
\* of its children's n
C10_EveryNodeVisits ==
    lastop \in {"expand", "select_false"} =>
        \A c \in DOMAIN tree.nodes :
            tree.nodes[c].n = 1 + ChildVisits(tree.nodes, c)

(***************************************************************************)
(* SpecTrain: the trainers of Selfplay::training_main, statement by        *)
(* statement, against the production model, the file at model_path and     *)
(* the replay buffer the search workers add to.  kami::eval is taken by    *)
(* its loop: the generation check at the top of every round, then the      *)
(* games of the round, which end the evaluation with either answer or go   *)
(* round again.                                                            *)
(***************************************************************************)
\* flush_old_rpb
flush_old_rpb == TRUE

\* ReplayBuffer::clear: both indices back to 0, the arrays left as they are
clear ==
    /\ write_index' = 0
    /\ total' = 0
    /\ UNCHANGED <<input_buffer, lmm_buffer, mcts_buffer, result_buffer, buffer_mut>>

Goto(t, pc) == trainer' = [trainer EXCEPT ![t].pc = pc]

notTrainer == <<bufVars, callVars, concVars, treeVars, selfplayVars, evalVars,
                codecVars, cliVars, nnVars, exVars>>

\* the outer loop of a trainer that never looks at the status
Tr_loop_ignores_status(t) ==
    /\ trainer[t].pc = "loop"
    /\ Goto(t, "wait")
    /\ UNCHANGED <<status, model, model_path, notTrainer>>

\* while (status.code() == RUNNING)
Tr_loop(t) ==
    /\ trainer[t].pc = "loop"
    /\ Goto(t, IF status = "RUNNING" THEN "wait" ELSE "stopped")
    /\ UNCHANGED <<status, model, model_path, notTrainer>>

\* the wait that goes on to train whatever the buffer holds
Tr_wait_nogate(t) ==
    /\ trainer[t].pc = "wait"
    /\ trainer' = [trainer EXCEPT ![t].pc = "clone", ![t].started = Len(added)]
    /\ UNCHANGED <<status, model, model_path, notTrainer>>

\* if (replay_buffer.count() < target_count) { sleep; continue; }
Tr_wait(t) ==
    /\ trainer[t].pc = "wait"
    /\ trainer' = IF count < trainer[t].target_count
                     THEN [trainer EXCEPT ![t].pc = "loop"]
                     ELSE [trainer EXCEPT ![t].pc = "clone",
                                          ![t].started = Len(added)]
    /\ UNCHANGED <<status, model, model_path, notTrainer>>

\* NN cmodel(model)
Tr_clone(t) ==
    /\ trainer[t].pc = "clone"
    /\ trainer' = [trainer EXCEPT ![t].pc = "select_batch",
                                  ![t].cmodel = NN_clone(model)]
    /\ UNCHANGED <<status, model, model_path, notTrainer>>

\* replay_buffer.select_batch(inputs, mcts, results, trajectories)
Tr_select_batch(t) ==
    /\ trainer[t].pc = "select_batch"
    /\ buffer_mut = Free
    /\ \E sources \in Sources(trajectories) :
          trainer' = [trainer EXCEPT ![t].pc = "train",
                                    ![t].batch = select_batch(sources)]
    /\ UNCHANGED <<status, model, model_path, notTrainer>>

\* cmodel.train(trajectories, inputs, mcts, results, detect_anomaly)
Tr_train(t) ==
    /\ trainer[t].pc = "train"
    /\ trainer' = [trainer EXCEPT ![t].pc = "eval",
                                  ![t].cmodel = train(@, t),
                                  ![t].batch = <<>>]
    /\ UNCHANGED <<status, model, model_path, notTrainer>>

\* eval, top of a round: return false if the current model's generation
\* is not below the candidate's
E_check(t) ==
    /\ trainer[t].pc = "eval"
    /\ IF get_generation(model) >= get_generation(trainer[t].cmodel)
          THEN trainer' = [trainer EXCEPT ![t].pc = "rejected",
                                         ![t].eval_result = FALSE]
          ELSE Goto(t, "eval_games")
    /\ UNCHANGED <<status, model, model_path, notTrainer>>

\* eval, the rest of a round: a game ends and decides the match early
\* either way, the round ends undecided, or a call on a tree or on a
\* model throws (eval_result is not assigned then)
E_games(t) ==
    /\ trainer[t].pc = "eval_games"
    /\ \E outcome \in {"undecided", "pass", "fail", "throws"} :
          trainer' = [trainer EXCEPT
              ![t].pc = CASE outcome = "undecided" -> "eval"
                          [] outcome = "pass" -> "write"
                          [] outcome = "fail" -> "rejected"
                          [] outcome = "throws" -> "caught",
              ![t].eval_result = IF outcome = "throws" THEN @ ELSE outcome = "pass"]
    /\ UNCHANGED <<status, model, model_path, notTrainer>>

\* a catch block that takes the failed evaluation for a pass
Tr_catch_accepts(t) ==
    /\ trainer[t].pc = "caught"
    /\ trainer' = [trainer EXCEPT ![t].pc = "write", ![t].eval_result = TRUE,
                                  ![t].threw = TRUE]
    /\ UNCHANGED <<status, model, model_path, notTrainer>>

\* catch (exception& e) { cerr << ...; eval_result = false; }
Tr_catch(t) ==
    /\ trainer[t].pc = "caught"
    /\ trainer' = [trainer EXCEPT ![t].pc = "rejected", ![t].eval_result = FALSE,
                                  ![t].threw = TRUE]
    /\ UNCHANGED <<status, model, model_path, notTrainer>>

\* cmodel.write(modelpath)
Tr_write(t) ==
    /\ trainer[t].pc = "write"
    /\ model_path' = write(trainer[t].cmodel)
    /\ Goto(t, "read")
    /\ UNCHANGED <<status, model, notTrainer>>

\* model->read(modelpath)
Tr_read(t) ==
    /\ trainer[t].pc = "read"
    /\ model' = read(model_path)
    /\ Goto(t, "clear")
    /\ UNCHANGED <<status, model_path, notTrainer>>

\* if (flush_old_rpb) replay_buffer.clear()
Tr_clear(t) ==
    /\ trainer[t].pc = "clear"
    /\ IF flush_old_rpb THEN clear ELSE UNCHANGED bufVars
    /\ Goto(t, "accepted")
    /\ UNCHANGED <<status, model, model_path, callVars, concVars, treeVars,
                   selfplayVars, evalVars, codecVars, cliVars, nnVars, exVars>>

\* the new target without the floor at the capacity
Tr_accepted_nomax(t) ==
    /\ trainer[t].pc = "accepted"
    /\ trainer' = [trainer EXCEPT ![t].pc = "accepted_from",
                                  ![t].target_count = count + target_incr]
    /\ UNCHANGED <<status, model, model_path, notTrainer>>

\* target_count = max((long) replay_buffer.size(),
\*                    replay_buffer.count() + (long) target_incr)
Tr_accepted(t) ==
    /\ trainer[t].pc = "accepted"
    /\ trainer' = [trainer EXCEPT ![t].pc = "accepted_from",
                                  ![t].target_count = Max(size, count + target_incr)]
    /\ UNCHANGED <<status, model, model_path, notTrainer>>

\* target_from = replay_buffer.count(); continue
Tr_accepted_from(t) ==
    /\ trainer[t].pc = "accepted_from"
    /\ trainer' = [trainer EXCEPT ![t].pc = "loop",
                                  ![t].target_from = count,
                                  ![t].threw = FALSE]
    /\ UNCHANGED <<status, model, model_path, notTrainer>>

\* the rejected branch, installing the candidate all the same
Tr_rejected_promotes(t) ==
    /\ trainer[t].pc = "rejected"
    /\ trainer' = [trainer EXCEPT ![t].pc = "loop",
                                  ![t].target_count = @ + target_incr,
                                  ![t].target_from = count,
                                  ![t].threw = FALSE]
    /\ model' = trainer[t].cmodel
    /\ UNCHANGED <<status, model_path, notTrainer>>

\* target_from = count; target_count += target_incr
Tr_rejected(t) ==
    /\ trainer[t].pc = "rejected"
    /\ trainer' = [trainer EXCEPT ![t].pc = "loop",
                                  ![t].target_count = @ + target_incr,
                                  ![t].target_from = count,
                                  ![t].threw = FALSE]
    /\ UNCHANGED <<status, model, model_path, notTrainer>>

\* the calls of stop the control thread makes at most
MaxStops == 2

\* Selfplay::stop called while RUNNING, up to the joins: status WAITING
stop ==
    /\ cli.pc = "idle"
    /\ cli.stops < MaxStops
    /\ status = "RUNNING"
    /\ status' = "WAITING"
    /\ cli' = [cli EXCEPT !.pc = "join_inference", !.stops = @ + 1, !.threw = FALSE]
    /\ UNCHANGED <<model, model_path, trainer, bufVars, callVars, concVars, treeVars,
                   selfplayVars, evalVars, codecVars, nnVars, exVars>>

\* Selfplay::stop called while not RUNNING:
\* throw runtime_error("stop() called when not running")
stop_throws ==
    /\ cli.pc = "idle"
    /\ cli.stops < MaxStops
    /\ status # "RUNNING"
    /\ cli' = [cli EXCEPT !.stops = @ + 1, !.threw = TRUE]
    /\ UNCHANGED <<trainVars, bufVars, callVars, concVars, treeVars,
                   selfplayVars, evalVars, codecVars, nnVars, exVars>>

InitSpecTrain == InitBuffer /\ InitCallers /\ InitConc /\ InitTreeIdle /\ InitTrain /\ InitSelfplay /\ InitEvalIdle /\ InitCodecIdle /\ InitCli /\ InitNNIdle /\ InitExpandIdle

NextTrain ==
    \/ BufAdd
    \/ stop
    \/ \E t \in Trainers : Tr_loop(t)
    \/ \E t \in Trainers : Tr_wait(t)
    \/ \E t \in Trainers : Tr_clone(t)
    \/ \E t \in Trainers : Tr_select_batch(t)
    \/ \E t \in Trainers : Tr_train(t)
    \/ \E t \in Trainers : E_check(t)
    \/ \E t \in Trainers : E_games(t)
    \/ \E t \in Trainers : Tr_catch(t)
    \/ \E t \in Trainers : Tr_write(t)
    \/ \E t \in Trainers : Tr_read(t)
    \/ \E t \in Trainers : Tr_clear(t)
    \/ \E t \in Trainers : Tr_accepted(t)
    \/ \E t \in Trainers : Tr_accepted_from(t)
    \/ \E t \in Trainers : Tr_rejected(t)

SpecTrain == InitSpecTrain /\ [][NextTrain]_vars

\* C1: the production model's generation never decreases, whatever the
\* interleaving and the number of trainers.
C1_GenerationMonotone ==
    [][get_generation(model') >= get_generation(model)]_vars

\* the step of trainer t that is its promotion's model->read
Promotes(t) == trainer[t].pc = "read" /\ trainer'[t].pc = "clear"

\* C2: every eval that returned true is followed by a promotion that
\* raises the generation above its value just before the promotion, and
\* the generation changes at no other step of the trainer loop.
C2_PromotionRaisesGeneration ==
    [][/\ \A t \in Trainers :
            Promotes(t) => get_generation(model') > get_generation(model)
       /\ get_generation(model') # get_generation(model) =>
            \E t \in Trainers : trainer[t].eval_result /\ Promotes(t)]_vars

(***************************************************************************)
(* SpecSelfplay: a search worker (Selfplay::inference_main), statement by  *)
(* statement, beside a trainer that promotes candidates.                   *)
(***************************************************************************)
\* flush_old_trees
flush_old_trees == TRUE

\* draw_value = (draw_value_pct / 100) * 2 - 1, with draw_value_pct = 50
draw_value == 0

\* the games after which the workers commit no further move while the
\* run goes on
MaxGames == 2

notWorker == <<callVars, concVars, treeVars, trainVars, evalVars, codecVars, cliVars, nnVars, exVars>>

SetWorker(w, rec) == worker' = [worker EXCEPT ![w] = rec]

\* trees[i] becomes t by the calls ops
SetTree(w, i, t, ops) ==
    /\ trees' = [trees EXCEPT ![w][i] = t]
    /\ treeops' = [treeops EXCEPT ![w][i] = CalledAll(@, ops)]

\* while (status.code() == RUNNING) { for (int i = 0; ...
W_loop(w) ==
    /\ worker[w].pc = "loop"
    /\ SetWorker(w, IF status = "RUNNING"
                       THEN [worker[w] EXCEPT !.pc = "for", !.i = 0]
                       ELSE [worker[w] EXCEPT !.pc = "terminated"])
    /\ UNCHANGED <<trees, treeops, partial_trajectories, wants_pgn, ret_pgn,
                   appended, games_played, bufVars, notWorker>>

\* i < ibatch
W_for(w) ==
    /\ worker[w].pc = "for"
    /\ SetWorker(w, [worker[w] EXCEPT
           !.pc = IF worker[w].i < ibatch THEN "flush_check" ELSE "infer"])
    /\ UNCHANGED <<trees, treeops, partial_trajectories, wants_pgn, ret_pgn,
                   appended, games_played, bufVars, notWorker>>

\* if (flush_old_trees && source_generation[i] < model->get_generation())
W_flush_check(w) ==
    /\ worker[w].pc = "flush_check"
    /\ SetWorker(w, [worker[w] EXCEPT
           !.pc = IF /\ flush_old_trees
                     /\ worker[w].source_generation[worker[w].i] < get_generation(model)
                  THEN "flush" ELSE "select"])
    /\ UNCHANGED <<trees, treeops, partial_trajectories, wants_pgn, ret_pgn,
                   appended, games_played, bufVars, notWorker>>

\* a plausible slip: the flush clears the list and leaves partials as it was
W_flush_keeps_partials(w) ==
    LET i == worker[w].i
    IN  /\ worker[w].pc = "flush"
        /\ SetTree(w, i, reset(trees[w][i]), <<"reset">>)
        /\ SetWorker(w, [worker[w] EXCEPT
               !.pc = "flush_tag",
               !.trajectories[i] = <<>>])
        /\ UNCHANGED <<partial_trajectories, wants_pgn, ret_pgn, appended,
                       games_played, bufVars, notWorker>>

\* trees[i].reset(); the trajectory entries are deleted and uncounted
W_flush(w) ==
    LET i == worker[w].i
    IN  /\ worker[w].pc = "flush"
        /\ SetTree(w, i, reset(trees[w][i]), <<"reset">>)
        /\ SetWorker(w, [worker[w] EXCEPT
               !.pc = "flush_tag",
               !.partials = @ - Len(worker[w].trajectories[i]),
               !.trajectories[i] = <<>>])
        /\ UNCHANGED <<partial_trajectories, wants_pgn, ret_pgn, appended,
                       games_played, bufVars, notWorker>>

\* source_generation[i] = model->get_generation()
W_flush_tag(w) ==
    /\ worker[w].pc = "flush_tag"
    /\ SetWorker(w, [worker[w] EXCEPT
           !.pc = "select",
           !.source_generation[worker[w].i] = get_generation(model)])
    /\ UNCHANGED <<trees, treeops, partial_trajectories, wants_pgn, ret_pgn,
                   appended, games_played, bufVars, notWorker>>

\* while (trees[i].n() < nodes && !trees[i].select(batch + i * OBSIZE));
\* if (trees[i].n() < nodes) continue;
W_select(w) ==
    LET i == worker[w].i
        r == select(trees[w][i])
    IN  /\ worker[w].pc = "select"
        /\ IF mcts_n(trees[w][i]) < nodes
              THEN /\ SetTree(w, i, r.tree,
                              <<IF r.ready THEN "select_true" ELSE "select_false">>)
                   /\ SetWorker(w, IF r.ready
                         THEN [worker[w] EXCEPT !.pc = "for", !.i = i + 1,
                                                !.batch[i] = observe(r.tree.env)]
                         ELSE worker[w])
              ELSE /\ SetWorker(w, [worker[w] EXCEPT !.pc = "commit"])
                   /\ UNCHANGED <<trees, treeops>>
        /\ UNCHANGED <<partial_trajectories, wants_pgn, ret_pgn, appended,
                       games_played, bufVars, notWorker>>

\* observe, snapshot, pov, the trajectory entry, pick(alpha), push, and
\* the terminal test; alpha is 1 with the default options
W_commit(w) ==
    LET i == worker[w].i
        t == trees[w][i]
        entry == [inputs |-> observe(t.env), mcts |-> snapshot(t),
                  pov |-> 0 - turn(t.env), captured |-> get_generation(model)]
    IN  /\ worker[w].pc = "commit"
        /\ games_played < MaxGames \/ status # "RUNNING"
        /\ \E picked \in pick(t, FALSE) :
              LET pushed == push(t, picked)
                  tv == terminal(pushed.env)
              IN  /\ SetTree(w, i, pushed, <<"snapshot", "pick", "push">>)
                  /\ SetWorker(w, [worker[w] EXCEPT
                         !.pc = IF pushed.dangling THEN "terminated"
                                ELSE IF tv.term THEN "terminal" ELSE "for",
                         !.value = IF tv.term THEN tv.value ELSE @,
                         !.batch[i] = entry.inputs,
                         !.partials = @ + 1,
                         !.trajectories[i] = Append(@, entry)])
        /\ UNCHANGED <<partial_trajectories, wants_pgn, ret_pgn, appended,
                       games_played, bufVars, notWorker>>

\* Env::pgn: the game as the moves played
pgn(e) == e.history

\* what a reader finds in ret_pgn while the worker is assigning it
TornPgn == <<0 - 1>>

\* trees[i].reset(), and on to the loops over trajectories[i]
ResetAfterGame(w) ==
    LET i == worker[w].i
    IN  /\ SetTree(w, i, reset(trees[w][i]), <<"reset">>)
        /\ games_played' = games_played + 1

\* the end of a game that leaves wants_pgn alone
W_terminal_no_exchange(w) ==
    /\ worker[w].pc = "terminal"
    /\ SetWorker(w, [worker[w] EXCEPT !.pc = "add", !.k = 1])
    /\ ResetAfterGame(w)
    /\ UNCHANGED <<wants_pgn, ret_pgn, partial_trajectories, appended, bufVars, notWorker>>

\* the game is over: if (wants_pgn.exchange(false)) hand out the PGN;
\* otherwise trees[i].reset()
W_terminal(w) ==
    /\ worker[w].pc = "terminal"
    /\ wants_pgn' = FALSE
    /\ IF wants_pgn
          THEN /\ SetWorker(w, [worker[w] EXCEPT !.pc = "pgn_assign", !.req = cli.req])
               /\ UNCHANGED <<trees, treeops, games_played>>
          ELSE /\ SetWorker(w, [worker[w] EXCEPT !.pc = "add", !.k = 1])
               /\ ResetAfterGame(w)
    /\ UNCHANGED <<ret_pgn, partial_trajectories, appended, bufVars, notWorker>>

\* ret_pgn = trees[i].get_env().pgn(): the assignment is under way
W_pgn_assign(w) ==
    /\ worker[w].pc = "pgn_assign"
    /\ ret_pgn' = TornPgn
    /\ SetWorker(w, [worker[w] EXCEPT !.pc = "pgn_assigned"])
    /\ UNCHANGED <<trees, treeops, partial_trajectories, wants_pgn, appended,
                   games_played, bufVars, notWorker>>

\* ret_pgn = trees[i].get_env().pgn(): the assignment is complete
W_pgn_assigned(w) ==
    /\ worker[w].pc = "pgn_assigned"
    /\ ret_pgn' = pgn(trees[w][worker[w].i].env)
    /\ SetWorker(w, [worker[w] EXCEPT
           !.pc = "pgn_clear",
           !.served = @ \cup {[req |-> worker[w].req,
                               pgn |-> pgn(trees[w][worker[w].i].env)]}])
    /\ UNCHANGED <<trees, treeops, partial_trajectories, wants_pgn, appended,
                   games_played, bufVars, notWorker>>

\* wants_pgn = false; trees[i].reset()
W_pgn_clear(w) ==
    /\ worker[w].pc = "pgn_clear"
    /\ wants_pgn' = FALSE
    /\ SetWorker(w, [worker[w] EXCEPT !.pc = "add", !.k = 1])
    /\ ResetAfterGame(w)
    /\ UNCHANGED <<ret_pgn, partial_trajectories, appended, bufVars, notWorker>>

\* the loop over trajectories[i], adding the game's value without the
\* point of view
W_add_entry_no_pov(w) ==
    LET i == worker[w].i
        k == worker[w].k
        traj == worker[w].trajectories[i]
    IN  /\ worker[w].pc = "add"
        /\ IF k <= Len(traj)
              THEN /\ buffer_mut = Free
                   /\ add(traj[k].inputs, 0, traj[k].mcts, worker[w].value)
                   /\ appended' = appended \cup
                          {[captured |-> traj[k].captured, at |-> get_generation(model)]}
                   /\ SetWorker(w, [worker[w] EXCEPT !.k = k + 1])
              ELSE /\ SetWorker(w, [worker[w] EXCEPT
                          !.pc = "for",
                          !.partials = @ - Len(traj),
                          !.trajectories[i] = <<>>])
                   /\ UNCHANGED <<bufVars, appended>>
        /\ UNCHANGED <<trees, treeops, partial_trajectories, wants_pgn, ret_pgn,
                       games_played, notWorker>>

\* the loop over trajectories[i]: one replay_buffer.add per entry, then
\* partials -= trajectories[i].size(); trajectories[i].clear()
W_add_entry(w) ==
    LET i == worker[w].i
        k == worker[w].k
        traj == worker[w].trajectories[i]
    IN  /\ worker[w].pc = "add"
        /\ IF k <= Len(traj)
              THEN /\ buffer_mut = Free
                   /\ add(traj[k].inputs, 0, traj[k].mcts,
                          IF worker[w].value = 0 THEN draw_value
                          ELSE traj[k].pov * worker[w].value)
                   /\ appended' = appended \cup
                          {[captured |-> traj[k].captured, at |-> get_generation(model)]}
                   /\ SetWorker(w, [worker[w] EXCEPT !.k = k + 1])
              ELSE /\ SetWorker(w, [worker[w] EXCEPT
                          !.pc = "for",
                          !.partials = @ - Len(traj),
                          !.trajectories[i] = <<>>])
                   /\ UNCHANGED <<bufVars, appended>>
        /\ UNCHANGED <<trees, treeops, partial_trajectories, wants_pgn, ret_pgn,
                       games_played, notWorker>>

\* a plausible slip: the expansion loop is skipped after the inference
W_infer_no_expand(w) ==
    /\ worker[w].pc = "infer"
    /\ SetWorker(w, [worker[w] EXCEPT !.pc = "publish"])
    /\ UNCHANGED <<trees, treeops, partial_trajectories, wants_pgn, ret_pgn,
                   appended, games_played, bufVars, notWorker>>

\* model->infer(batch, ibatch, inf_policy, inf_value)
W_infer(w) ==
    /\ worker[w].pc = "infer"
    /\ SetWorker(w, [worker[w] EXCEPT !.pc = "expand", !.i = 0])
    /\ UNCHANGED <<trees, treeops, partial_trajectories, wants_pgn, ret_pgn,
                   appended, games_played, bufVars, notWorker>>

\* what the network answers a worker: a flat policy or one that prefers
\* the second action, flat noise, a win or a loss
WorkerPolicies == {[a \in {1, 2} |-> 1], [a \in {1, 2} |-> a]}

WorkerNoises == {[j \in {1, 2} |-> 1]}

WorkerValues == {0 - VUnit, VUnit}

\* for (i ...) trees[i].expand(inf_policy + i * PSIZE, inf_value[i])
W_expand(w) ==
    LET i == worker[w].i
    IN  /\ worker[w].pc = "expand"
        /\ IF i < ibatch
              THEN /\ \E policy \in WorkerPolicies, noise \in WorkerNoises, value \in WorkerValues :
                         SetTree(w, i, expand(trees[w][i], policy, noise, value, FALSE),
                                 <<"expand">>)
                   /\ SetWorker(w, [worker[w] EXCEPT !.i = i + 1])
              ELSE /\ SetWorker(w, [worker[w] EXCEPT !.pc = "publish"])
                   /\ UNCHANGED <<trees, treeops>>
        /\ UNCHANGED <<partial_trajectories, wants_pgn, ret_pgn, appended,
                       games_played, bufVars, notWorker>>

\* *pt = partials
W_publish(w) ==
    /\ worker[w].pc = "publish"
    /\ partial_trajectories' = [partial_trajectories EXCEPT ![w] = worker[w].partials]
    /\ SetWorker(w, [worker[w] EXCEPT !.pc = "loop"])
    /\ UNCHANGED <<trees, treeops, wants_pgn, ret_pgn, appended, games_played,
                   bufVars, notWorker>>

\* the trainers that run beside the workers
SelfplayTrainers == {1}

InitSpecSelfplay ==
    InitBufferIdle /\ InitCallers /\ InitConc /\ InitTreeIdle /\ InitTrain /\ InitSelfplay /\ InitEvalIdle /\ InitCodecIdle /\ InitCli /\ InitNNIdle /\ InitExpandIdle

NextSelfplay ==
    \/ \E w \in Workers : W_loop(w)
    \/ \E w \in Workers : W_for(w)
    \/ \E w \in Workers : W_flush_check(w)
    \/ \E w \in Workers : W_flush(w)
    \/ \E w \in Workers : W_flush_tag(w)
    \/ \E w \in Workers : W_select(w)
    \/ \E w \in Workers : W_commit(w)
    \/ \E w \in Workers : W_terminal(w)
    \/ \E w \in Workers : W_add_entry(w)
    \/ \E w \in Workers : W_infer(w)
    \/ \E w \in Workers : W_expand(w)
    \/ \E w \in Workers : W_publish(w)
    \/ \E t \in SelfplayTrainers : Tr_loop(t)
    \/ \E t \in SelfplayTrainers : Tr_wait(t)
    \/ \E t \in SelfplayTrainers : Tr_clone(t)
    \/ \E t \in SelfplayTrainers : Tr_select_batch(t)
    \/ \E t \in SelfplayTrainers : Tr_train(t)
    \/ \E t \in SelfplayTrainers : E_check(t)
    \/ \E t \in SelfplayTrainers : E_games(t)
    \/ \E t \in SelfplayTrainers : Tr_catch(t)
    \/ \E t \in SelfplayTrainers : Tr_write(t)
    \/ \E t \in SelfplayTrainers : Tr_read(t)
    \/ \E t \in SelfplayTrainers : Tr_clear(t)
    \/ \E t \in SelfplayTrainers : Tr_accepted(t)
    \/ \E t \in SelfplayTrainers : Tr_accepted_from(t)
    \/ \E t \in SelfplayTrainers : Tr_rejected(t)

SpecSelfplay == InitSpecSelfplay /\ [][NextSelfplay]_vars

\* C3: with flush_old_trees, no tuple whose trajectory entry was captured
\* under an older generation is appended to the replay buffer once the
\* generation has been raised.
C3_NoStaleAppend ==
    flush_old_trees => \A e \in appended : e.captured >= e.at

(***************************************************************************)
(* SpecEval: one call of kami::eval(current_model, candidate_model), while *)
(* another trainer may promote a candidate of its own.                     *)
(***************************************************************************)
notEval == <<bufVars, callVars, concVars, treeVars, selfplayVars, status,
             model_path, trainer, owner, codecVars, cliVars, nnVars, exVars>>

SetETree(i, t, ops) ==
    /\ etrees' = [etrees EXCEPT ![i] = t]
    /\ etreeops' = [etreeops EXCEPT ![i] = CalledAll(@, ops)]

\* float target_score = (egames * etarget) / 100, in the units of score
target_score == ((egames * etarget) \div 100) * 2 * VUnit

\* while (games < egames): the batch sizes are zeroed and the generations
\* compared; after the loop, return score * 100 / games >= etarget
E_while ==
    /\ ev.pc = "while"
    /\ ev' = IF ev.games < egames
               THEN IF get_generation(model) >= get_generation(candidate)
                      THEN [ev EXCEPT !.pc = "done", !.result = "false"]
                      ELSE [ev EXCEPT !.pc = "for", !.i = 0,
                                      !.cur_batch_size = 0, !.cd_batch_size = 0]
               ELSE [ev EXCEPT !.pc = "done",
                               !.result = IF ev.score * 100 >= etarget * ev.games * 2 * VUnit
                                          THEN "true" ELSE "false"]
    /\ UNCHANGED <<model, candidate, etrees, etreeops, notEval>>

\* for (i ...): inputs and boff are chosen by the side to move at the root
E_for ==
    /\ ev.pc = "for"
    /\ ev' = IF ev.i < ebatch
               THEN LET cd == turn(etrees[ev.i].env) = ev.candidate_turns[ev.i]
                    IN  [ev EXCEPT !.pc = "select",
                                   !.inputs = IF cd THEN "cd" ELSE "cur",
                                   !.boff = IF cd THEN ev.cd_batch_size
                                                  ELSE ev.cur_batch_size]
               ELSE [ev EXCEPT !.pc = "infer_cur", !.j = 0]
    /\ UNCHANGED <<model, candidate, etrees, etreeops, notEval>>

\* while (trees[i].n() < enodes && !trees[i].select(inputs + boff * ...));
\* a ready tree is entered in cd_targets or cur_targets by the side to move
\* of its environment, and the loop goes on to the next tree
E_select ==
    LET i == ev.i
        r == select(etrees[i])
        obs == observe(r.tree.env)
        written == IF ev.inputs = "cd"
                      THEN [ev EXCEPT !.cd_inputs[ev.boff] = obs]
                      ELSE [ev EXCEPT !.cur_inputs[ev.boff] = obs]
    IN  /\ ev.pc = "select"
        /\ IF mcts_n(etrees[i]) < enodes
              THEN /\ SetETree(i, r.tree,
                               <<IF r.ready THEN "select_true" ELSE "select_false">>)
                   /\ ev' = IF ~r.ready THEN ev
                            ELSE IF turn(r.tree.env) = ev.candidate_turns[i]
                            THEN [written EXCEPT
                                    !.cd_targets[ev.cd_batch_size] = i,
                                    !.cd_batch_size = @ + 1,
                                    !.pc = "for", !.i = i + 1]
                            ELSE [written EXCEPT
                                    !.cur_targets[ev.cur_batch_size] = i,
                                    !.cur_batch_size = @ + 1,
                                    !.pc = "for", !.i = i + 1]
              ELSE /\ ev' = [ev EXCEPT !.pc = "move"]
                   /\ UNCHANGED <<etrees, etreeops>>
        /\ UNCHANGED <<model, candidate, notEval>>

\* trees[i].push(trees[i].pick()); at the end of a game the score and the
\* game count, reset, the new candidate_turns[i], and the early decision
E_move ==
    LET i == ev.i
        t == etrees[i]
    IN  /\ ev.pc = "move"
        /\ \E picked \in pick(t, TRUE) :
              LET pushed == push(t, picked)
                  tv == terminal(pushed.env)
                  score == ev.score + tv.value * ev.candidate_turns[i] + VUnit
                  games == ev.games + 1
                  over == [ev EXCEPT
                             !.score = score, !.games = games,
                             !.candidate_turns[i] = IF ev.inputs = "cd" THEN 1 ELSE 0 - 1]
              IN  IF pushed.dangling
                  THEN /\ SetETree(i, pushed, <<"pick", "push">>)
                       /\ ev' = [ev EXCEPT !.pc = "done", !.result = "threw"]
                  ELSE IF ~tv.term
                  THEN /\ SetETree(i, pushed, <<"pick", "push">>)
                       /\ ev' = [ev EXCEPT !.pc = "for"]
                  ELSE /\ SetETree(i, reset(pushed), <<"pick", "push", "reset">>)
                       /\ ev' = IF score + (egames - games) * 2 * VUnit < target_score
                                   THEN [over EXCEPT !.pc = "done", !.result = "false"]
                                ELSE IF score >= target_score
                                   THEN [over EXCEPT !.pc = "done", !.result = "true"]
                                ELSE [over EXCEPT !.pc = "for"]
        /\ UNCHANGED <<model, candidate, notEval>>

\* if (cur_batch_size) { current_model->infer(...); expand each of
\* trees[cur_targets[j]] with disable_bootstrap }
E_expand_cur ==
    /\ ev.pc = "infer_cur"
    /\ IF ev.j < ev.cur_batch_size
          THEN /\ \E policy \in WorkerPolicies, noise \in WorkerNoises,
                     value \in WorkerValues :
                     SetETree(ev.cur_targets[ev.j],
                              expand(etrees[ev.cur_targets[ev.j]], policy, noise, value, TRUE),
                              <<"expand">>)
               /\ ev' = [ev EXCEPT !.j = @ + 1]
          ELSE /\ ev' = [ev EXCEPT !.pc = "infer_cd", !.j = 0]
               /\ UNCHANGED <<etrees, etreeops>>
    /\ UNCHANGED <<model, candidate, notEval>>

\* if (cd_batch_size) { candidate_model->infer(...); expand each of
\* trees[cd_targets[j]] with disable_bootstrap }
E_expand_cd ==
    /\ ev.pc = "infer_cd"
    /\ IF ev.j < ev.cd_batch_size
          THEN /\ \E policy \in WorkerPolicies, noise \in WorkerNoises,
                     value \in WorkerValues :
                     SetETree(ev.cd_targets[ev.j],
                              expand(etrees[ev.cd_targets[ev.j]], policy, noise, value, TRUE),
                              <<"expand">>)
               /\ ev' = [ev EXCEPT !.j = @ + 1]
          ELSE /\ ev' = [ev EXCEPT !.pc = "while"]
               /\ UNCHANGED <<etrees, etreeops>>
    /\ UNCHANGED <<model, candidate, notEval>>

\* another trainer's promotion while this eval runs: model->read of a
\* candidate trained from the production model
E_other_promotion ==
    /\ ev.pc \notin {"idle", "done"}
    /\ get_generation(model) <= get_generation(candidate)
    /\ model' = read(write(train(NN_clone(model), 2)))
    /\ UNCHANGED <<ev, candidate, etrees, etreeops, notEval>>

InitSpecEval ==
    /\ InitBufferIdle /\ InitCallers /\ InitConc /\ InitTreeIdle /\ InitTrain
    /\ InitSelfplay /\ InitEval /\ InitCodecIdle /\ InitCli /\ InitNNIdle /\ InitExpandIdle
    /\ owner = "eval"

NextEval ==
    \/ E_while
    \/ E_for
    \/ E_select
    \/ E_move
    \/ E_expand_cur
    \/ E_expand_cd
    \/ E_other_promotion

SpecEval == InitSpecEval /\ [][NextEval]_vars

(***************************************************************************)
(* SpecOrder: the owners of MCTS trees, each followed on its own: a        *)
(* search worker beside its trainer, or one call of eval.  A tree is       *)
(* touched by its owner only.                                              *)
(***************************************************************************)
InitSpecOrder == InitSpecSelfplay \/ InitSpecEval

NextOrder ==
    \/ owner = "worker" /\ NextSelfplay
    \/ owner = "eval" /\ NextEval

SpecOrder == InitSpecOrder /\ [][NextOrder]_vars

\* C8, as the code has it: in the search worker and in the evaluator,
\* after a select on a tree returned true the next call on that tree
\* (select, snapshot, pick, push, reset or expand) is an expand, and expand
\* is only called right after a select that returned true.
C8_CallsInOrder ==
    /\ \A w \in Workers : \A i \in TreeSlots : ~treeops[w][i].misordered
    /\ \A i \in EvalSlots : ~etreeops[i].misordered

\* in eval, with a game already played, the first tree has been expanded
\* and the second is still waiting for its expand
C8_ExpandingBatch ==
    /\ owner = "eval"
    /\ ev.games >= 1
    /\ etreeops[0].last = "expand"
    /\ etreeops[1].last = "select_true"

\* C8 as stated: the calls are in order, and every select that returned
\* true has got its expand by the time the owner is done with the tree
C8_EverySelectExpanded ==
    /\ C8_CallsInOrder
    /\ ev.pc = "done" => \A i \in EvalSlots : etreeops[i].last # "select_true"
    /\ \A w \in Workers :
          worker[w].pc = "terminated" =>
              \A i \in TreeSlots : treeops[w][i].last # "select_true"

(***************************************************************************)
(* The move codec: Env::encode and Env::decode (src/kami/env.h) over the    *)
(* squares, pieces and moves of neocortex (chess/neocortex/types.h,         *)
(* types.c).  A move is an integer holding the source square, the           *)
(* destination square and the promotion piece in bit fields; a bitboard is  *)
(* the set of its squares.                                                  *)
(***************************************************************************)
NC_EAST == 1
NC_WEST == 0 - 1
NC_NORTH == 8
NC_SOUTH == 0 - 8
NC_NORTHEAST == 9
NC_NORTHWEST == 7
NC_SOUTHEAST == 0 - 7
NC_SOUTHWEST == 0 - 9

NC_WHITE == 0
NC_BLACK == 1

NC_NULL == 0 - 1
NC_PAWN == 0
NC_KNIGHT == 1
NC_BISHOP == 2
NC_ROOK == 3
NC_QUEEN == 4
NC_KING == 5

\* #define PSIZE (73 * 64)
PSIZE == 73 * 64

Squares == 0 .. 63

\* the bitwise operators of C on non-negative integers
RECURSIVE BitOr(_, _)
BitOr(a, b) ==
    IF a = 0 THEN b
    ELSE IF b = 0 THEN a
    ELSE (IF a % 2 = 1 \/ b % 2 = 1 THEN 1 ELSE 0) + 2 * BitOr(a \div 2, b \div 2)

RECURSIVE BitAnd(_, _)
BitAnd(a, b) ==
    IF a = 0 \/ b = 0 THEN 0
    ELSE (IF a % 2 = 1 /\ b % 2 = 1 THEN 1 ELSE 0) + 2 * BitAnd(a \div 2, b \div 2)

ShiftLeft(a, k) == a * (2 ^ k)

ShiftRight(a, k) == a \div (2 ^ k)

ncPieceValid(p) == p >= 0 /\ p < 12

ncPieceTypeValid(p) == p >= 0 /\ p < 6

ncPieceMake(ptype, col) == BitOr(col, ShiftLeft(ptype, 1))

ncPieceType(p) == ShiftRight(p, 1)

ncSquareAt(rank, file) == rank * 8 + file

ncSquareValid(s) == s >= 0 /\ s < 64

ncSquareFile(s) == s % 8

ncSquareRank(s) == s \div 8

ncMoveValid(mv) == mv > 0 /\ mv < 65535

\* src << 6 | dst | 0xF000
ncMoveMake(src, to) == BitOr(BitOr(ShiftLeft(src, 6), to), 61440)

\* src << 6 | dst | (ptype << 12)
ncMoveMakeP(src, to, ptype) == BitOr(BitOr(ShiftLeft(src, 6), to), ShiftLeft(ptype, 12))

ncMoveSrc(mv) == BitAnd(ShiftRight(mv, 6), 63)

ncMoveDst(mv) == BitAnd(mv, 63)

ncMovePtype(mv) == BitAnd(ShiftRight(mv, 12), 15)

\* the loops of ncBitboardInitRays: walk from src in direction dir while the
\* square is on the board and the file has not wrapped round
RECURSIVE RayWalk(_, _, _)
RayWalk(src, sq, dir) ==
    IF /\ ncSquareValid(sq)
       /\ dir \in {NC_EAST, NC_NORTHEAST, NC_SOUTHEAST} => ncSquareFile(sq) > ncSquareFile(src)
       /\ dir \in {NC_WEST, NC_NORTHWEST, NC_SOUTHWEST} => ncSquareFile(sq) < ncSquareFile(src)
    THEN {sq} \cup RayWalk(src, sq + dir, dir)
    ELSE {}

ncBitboardRay(src, dir) == RayWalk(src, src + dir, dir)

\* ncAttacksQueen(src, 0ULL): the squares a queen on src reaches on an empty board
ncAttacksQueen(src) ==
    UNION {ncBitboardRay(src, dir) :
             dir \in {NC_NORTH, NC_SOUTH, NC_EAST, NC_WEST,
                      NC_NORTHEAST, NC_NORTHWEST, NC_SOUTHEAST, NC_SOUTHWEST}}

\* the inner loop of ncBitboardInitBetween: step from start towards target
RECURSIVE BetweenWalk(_, _)
BetweenWalk(start, target) ==
    IF start = target THEN {}
    ELSE LET vert == IF ncSquareRank(start) < ncSquareRank(target) THEN NC_NORTH
                     ELSE IF ncSquareRank(start) > ncSquareRank(target) THEN NC_SOUTH
                     ELSE 0
             horiz == IF ncSquareFile(start) < ncSquareFile(target) THEN NC_EAST
                      ELSE IF ncSquareFile(start) > ncSquareFile(target) THEN NC_WEST
                      ELSE 0
             next == start + vert + horiz
         IN  {next} \cup BetweenWalk(next, target)

ncBitboardBetween_empty(src, to) == {}

\* NC_BETWEEN[src][dst]
ncBitboardBetween(src, to) ==
    IF to \in ncAttacksQueen(src) THEN BetweenWalk(src, to) \ {to} ELSE {}

ncBitboardPopcnt(b) == Cardinality(b)

\* the position as far as the codec reads it: the side to move and the piece
\* on one square (every other square is empty)
Game(ctm, sq, piece) == [ctm |-> ctm, sq |-> sq, piece |-> piece]

ncBoardGetPiece(g, sq) == IF sq = g.sq THEN g.piece ELSE NC_NULL

\* Env::encode
encode(g, move) ==
    LET msrc == ncMoveSrc(move)
        mdst == ncMoveDst(move)
        srcpiece == ncBoardGetPiece(g, msrc)
        ptype == ncMovePtype(move)
        src == IF g.ctm = NC_BLACK THEN 63 - msrc ELSE msrc
        to == IF g.ctm = NC_BLACK THEN 63 - mdst ELSE mdst
        srcrank == ncSquareRank(src)
        dstrank == ncSquareRank(to)
        srcfile == ncSquareFile(src)
        dstfile == ncSquareFile(to)
        ind == ncBitboardPopcnt(ncBitboardBetween(src, to))
        ray ==
            IF to \in ncBitboardRay(src, NC_NORTH) THEN 73 * src + ind
            ELSE IF to \in ncBitboardRay(src, NC_SOUTH) THEN 73 * src + 7 + ind
            ELSE IF to \in ncBitboardRay(src, NC_EAST) THEN 73 * src + 14 + ind
            ELSE IF to \in ncBitboardRay(src, NC_WEST) THEN 73 * src + 21 + ind
            ELSE IF to \in ncBitboardRay(src, NC_NORTHEAST) THEN 73 * src + 28 + ind
            ELSE IF to \in ncBitboardRay(src, NC_NORTHWEST) THEN 73 * src + 35 + ind
            ELSE IF to \in ncBitboardRay(src, NC_SOUTHEAST) THEN 73 * src + 42 + ind
            ELSE 73 * src + 49 + ind
        kind == (IF srcrank > dstrank THEN 4 ELSE 0)
                + (IF srcfile < dstfile THEN 2 ELSE 0)
                + Abs(srcrank - dstrank) - 1
    IN  IF ~ncPieceValid(srcpiece) THEN 0
        ELSE IF /\ ncPieceType(srcpiece) = NC_PAWN
                /\ ncPieceTypeValid(ptype) /\ ptype # NC_QUEEN
                /\ ptype \in {NC_KNIGHT, NC_BISHOP, NC_ROOK}
        THEN 73 * src + 64 + (dstfile - srcfile)
                 + (IF ptype = NC_KNIGHT THEN 1 ELSE IF ptype = NC_BISHOP THEN 4 ELSE 7)
        ELSE IF ncPieceType(srcpiece) \in {NC_PAWN, NC_QUEEN, NC_ROOK, NC_BISHOP, NC_KING}
        THEN ray
        ELSE IF ncPieceType(srcpiece) = NC_KNIGHT
        THEN 73 * src + 56 + kind
        ELSE 0

\* decode without the change of point of view for black
decode_no_flip(g, action) ==
    LET src == action \div 73
        atype == action % 73
        raydirs == <<NC_NORTH, NC_SOUTH, NC_EAST, NC_WEST,
                     NC_NORTHEAST, NC_NORTHWEST, NC_SOUTHEAST, NC_SOUTHWEST>>
        knightdirs == <<NC_WEST + NC_NORTHWEST, NC_NORTH + NC_NORTHWEST,
                        NC_EAST + NC_NORTHEAST, NC_NORTH + NC_NORTHEAST,
                        NC_WEST + NC_SOUTHWEST, NC_SOUTH + NC_SOUTHWEST,
                        NC_EAST + NC_SOUTHEAST, NC_SOUTH + NC_SOUTHEAST>>
        promodirs == <<NC_NORTHWEST, NC_NORTH, NC_NORTHEAST>>
        ptypes == <<NC_KNIGHT, NC_BISHOP, NC_ROOK>>
        to == IF atype < 56 THEN src + raydirs[(atype \div 7) + 1] * ((atype % 7) + 1)
              ELSE IF atype < 64 THEN src + knightdirs[(atype - 56) + 1]
              ELSE src + promodirs[((atype - 64) % 3) + 1]
    IN  IF atype < 64 THEN ncMoveMake(src, to)
        ELSE ncMoveMakeP(src, to, ptypes[((atype - 64) \div 3) + 1])

\* Env::decode
decode(g, action) ==
    LET src == action \div 73
        atype == action % 73
        raydirs == <<NC_NORTH, NC_SOUTH, NC_EAST, NC_WEST,
                     NC_NORTHEAST, NC_NORTHWEST, NC_SOUTHEAST, NC_SOUTHWEST>>
        knightdirs == <<NC_WEST + NC_NORTHWEST, NC_NORTH + NC_NORTHWEST,
                        NC_EAST + NC_NORTHEAST, NC_NORTH + NC_NORTHEAST,
                        NC_WEST + NC_SOUTHWEST, NC_SOUTH + NC_SOUTHWEST,
                        NC_EAST + NC_SOUTHEAST, NC_SOUTH + NC_SOUTHEAST>>
        promodirs == <<NC_NORTHWEST, NC_NORTH, NC_NORTHEAST>>
        ptypes == <<NC_KNIGHT, NC_BISHOP, NC_ROOK>>
        to == IF atype < 56 THEN src + raydirs[(atype \div 7) + 1] * ((atype % 7) + 1)
              ELSE IF atype < 64 THEN src + knightdirs[(atype - 56) + 1]
              ELSE src + promodirs[((atype - 64) % 3) + 1]
        fsrc == IF g.ctm = NC_BLACK THEN 63 - src ELSE src
        fdst == IF g.ctm = NC_BLACK THEN 63 - to ELSE to
    IN  IF atype < 64 THEN ncMoveMake(fsrc, fdst)
        ELSE ncMoveMakeP(fsrc, fdst, ptypes[((atype - 64) \div 3) + 1])

(***************************************************************************)
(* The moves a position can offer the codec (ncPositionPLMoves filtered by  *)
(* ncPositionMakeMove in Env::actions): for the piece on g.sq, every move   *)
(* of its kind that stays on the board, in the move generator's own         *)
(* representation.  Pawns move towards the far rank of their side, one      *)
(* square, two from their first rank, or one diagonally; a pawn reaching    *)
(* the far rank carries the piece it promotes to.  The king also castles.   *)
(***************************************************************************)
PromotionPieces == {NC_KNIGHT, NC_BISHOP, NC_ROOK, NC_QUEEN}

PieceMoves(g) ==
    LET pt == ncPieceType(g.piece)
        r == ncSquareRank(g.sq)
        f == ncSquareFile(g.sq)
        white == g.ctm = NC_WHITE
        fwd == IF white THEN 1 ELSE 0 - 1
        first == IF white THEN 1 ELSE 6
        far == IF white THEN 7 ELSE 0
        Line(dr, df) == (dr = 0 /\ df # 0) \/ (df = 0 /\ dr # 0)
        Diag(dr, df) == Abs(dr) = Abs(df) /\ dr # 0
        Shape(dr, df) ==
            IF pt = NC_ROOK THEN Line(dr, df)
            ELSE IF pt = NC_BISHOP THEN Diag(dr, df)
            ELSE IF pt = NC_QUEEN THEN Line(dr, df) \/ Diag(dr, df)
            ELSE IF pt = NC_KING
            THEN \/ Max(Abs(dr), Abs(df)) = 1
                 \/ f = 4 /\ r = 7 - far /\ dr = 0 /\ Abs(df) = 2
            ELSE IF pt = NC_KNIGHT THEN {Abs(dr), Abs(df)} = {1, 2}
            ELSE /\ r # far /\ r # 7 - far
                 /\ \/ dr = fwd /\ Abs(df) <= 1
                    \/ dr = 2 * fwd /\ df = 0 /\ r = first
        Targets == {sq \in Squares :
                      Shape(ncSquareRank(sq) - r, ncSquareFile(sq) - f)}
    IN  UNION {IF pt = NC_PAWN /\ ncSquareRank(sq) = far
               THEN {ncMoveMakeP(g.sq, sq, p) : p \in PromotionPieces}
               ELSE {ncMoveMake(g.sq, sq)} : sq \in Targets}

Colors == {NC_WHITE, NC_BLACK}

PieceTypes == {NC_PAWN, NC_KNIGHT, NC_BISHOP, NC_ROOK, NC_QUEEN, NC_KING}

Games == {Game(c, sq, ncPieceMake(pt, c)) : c \in Colors, sq \in Squares, pt \in PieceTypes}

\* a position and one of its moves, not yet encoded
InitCodec ==
    \E g \in Games : \E m \in PieceMoves(g) :
        codec = [pc |-> "encode", game |-> g, move |-> m,
                 action |-> 0 - 1, decoded |-> 0 - 1, recoded |-> 0 - 1]

\* Env::actions: cur_actions.push_back(encode(moves[i]))
C_encode ==
    /\ codec.pc = "encode"
    /\ codec' = [codec EXCEPT !.pc = "decode", !.action = encode(codec.game, codec.move)]
    /\ UNCHANGED <<bufVars, callVars, concVars, treeVars, trainVars, selfplayVars, evalVars,
                   cliVars, nnVars, exVars>>

\* ncMove decoded = e.decode(a)
C_decode ==
    /\ codec.pc = "decode"
    /\ codec' = [codec EXCEPT !.pc = "recode", !.decoded = decode(codec.game, codec.action)]
    /\ UNCHANGED <<bufVars, callVars, concVars, treeVars, trainVars, selfplayVars, evalVars,
                   cliVars, nnVars, exVars>>

\* int recoded = e.encode(decoded)
C_recode ==
    /\ codec.pc = "recode"
    /\ codec' = [codec EXCEPT !.pc = "done", !.recoded = encode(codec.game, codec.decoded)]
    /\ UNCHANGED <<bufVars, callVars, concVars, treeVars, trainVars, selfplayVars, evalVars,
                   cliVars, nnVars, exVars>>

InitSpecCodec ==
    /\ InitBufferIdle /\ InitCallers /\ InitConc /\ InitTreeIdle /\ InitTrain
    /\ InitSelfplay /\ InitEvalIdle /\ InitCodec /\ InitCli /\ InitNNIdle /\ InitExpandIdle

NextCodec == C_encode \/ C_decode \/ C_recode

SpecCodec == InitSpecCodec /\ [][NextCodec]_vars

\* the move was a promotion to the piece p
IsPromotionTo(p) ==
    /\ ncPieceType(codec.game.piece) = NC_PAWN
    /\ ncMovePtype(codec.move) = p

\* C11: for every position and every legal move of it (ray, knight, castling,
\* under-promotion and queen-promotion, either side to move), decoding the
\* encoded move gives the move back, promotion piece included.
C11_DecodeEncode ==
    codec.pc \in {"recode", "done"} => codec.decoded = codec.move

\* C11, without the queen-promotions: decoding the encoded move gives back
\* the source and destination squares of every move, and the whole move
\* unless it promotes to a queen.
C11_DecodeEncodeSquares ==
    codec.pc \in {"recode", "done"} =>
        /\ ncMoveSrc(codec.decoded) = ncMoveSrc(codec.move)
        /\ ncMoveDst(codec.decoded) = ncMoveDst(codec.move)
        /\ ~IsPromotionTo(NC_QUEEN) => codec.decoded = codec.move

\* a black pawn's queen-promotion by capture has been encoded and decoded
C11_QueenPromotionDecoded ==
    /\ codec.pc = "done"
    /\ codec.game.ctm = NC_BLACK
    /\ IsPromotionTo(NC_QUEEN)
    /\ ncSquareFile(ncMoveSrc(codec.move)) # ncSquareFile(ncMoveDst(codec.move))

\* C12: for every action index a that actions() returns (the encoding of a
\* legal move of the position), encoding the decoded action gives a back.
C12_EncodeDecode ==
    codec.pc = "done" => codec.recoded = codec.action

\* a white pawn's queen-promotion went through encode, decode and encode
C12_QueenPromotionRecoded ==
    /\ codec.pc = "done"
    /\ codec.game.ctm = NC_WHITE
    /\ IsPromotionTo(NC_QUEEN)
    /\ codec.decoded # codec.move

\* the source square of the move from the mover's point of view
PovSrc == IF codec.game.ctm = NC_BLACK THEN 63 - ncMoveSrc(codec.move)
          ELSE ncMoveSrc(codec.move)

\* C13: the index of every legal move lies in [0, PSIZE), PSIZE = 73 * 64 = 4672,
\* and no other legal move of the same position has the same index: the
\* other moves of the same piece encode differently, and the index divided
\* by 73 is the source square, so moves of other pieces do too.
C13_IndexInRangeAndDistinct ==
    codec.pc # "encode" =>
        /\ codec.action >= 0 /\ codec.action < PSIZE
        /\ PSIZE = 4672
        /\ codec.action \div 73 = PovSrc
        /\ \A m \in PieceMoves(codec.game) \ {codec.move} :
               encode(codec.game, m) # codec.action

\* a rook under-promotion by capture, one of twelve promotions from the same
\* square, was encoded into the last slot of its square
C13_UnderPromotionEncoded ==
    /\ codec.pc # "encode"
    /\ IsPromotionTo(NC_ROOK)
    /\ codec.action % 73 = 72
    /\ Cardinality(PieceMoves(codec.game)) = 12

(***************************************************************************)
(* The rejected branch of training_main (SpecTrain).                       *)
(***************************************************************************)
\* trainer t learns that its candidate is rejected: eval returned false
Rejects(t) ==
    trainer[t].pc \in {"eval", "eval_games"} /\ trainer'[t].pc = "rejected"

\* trainer t runs the statements after the rejected branch
AfterRejected(t) ==
    trainer[t].pc = "rejected" /\ trainer'[t].pc = "loop"

\* C14: a rejected candidate leaves the production model untouched: the
\* trainer's steps from eval returning false to the top of its loop change
\* neither the model (weights, generation), nor the file at model_path, nor
\* the buffer, and of the trainer's own state only target_count, which grows
\* by target_incr, and target_from, which becomes count().
C14_RejectedFrame ==
    [][\A t \in Trainers :
          /\ Rejects(t) \/ AfterRejected(t) =>
                /\ model' = model
                /\ model_path' = model_path
                /\ bufVars' = bufVars
          /\ Rejects(t) =>
                /\ trainer'[t].target_count = trainer[t].target_count
                /\ trainer'[t].target_from = trainer[t].target_from
          /\ AfterRejected(t) =>
                /\ trainer'[t].target_count = trainer[t].target_count + target_incr
                /\ trainer'[t].target_from = count]_vars

\* a trainer is back at the top of its loop after the evaluation games
\* rejected its candidate, a generation ahead of the production model
C14_CandidateRejected ==
    \E t \in Trainers :
        /\ trainer[t].pc = "loop"
        /\ trainer[t].eval_result = FALSE
        /\ trainer[t].target_count = bufsize + target_incr
        /\ get_generation(trainer[t].cmodel) > get_generation(model)

(***************************************************************************)
(* The decision of kami::eval (SpecEval).  ev.score counts a won game as    *)
(* 2 * VUnit, a drawn game as VUnit and a lost game as 0.                   *)
(***************************************************************************)
\* C15: eval returns true only with a score of at least
\* egames * etarget / 100 games, the target taken exactly (not truncated), so
\* the candidate has etarget percent of the whole match; and it returns
\* false before the last game only if the score and all the games left would
\* stay below that target.
C15_TrueMeansTarget ==
    /\ ev.pc = "done" /\ ev.result = "true" =>
           ev.score * 100 >= egames * etarget * 2 * VUnit
    /\ ev.pc = "done" /\ ev.result = "false" /\ ev.games < egames
          /\ get_generation(model) < get_generation(candidate) =>
           (ev.score + (egames - ev.games) * 2 * VUnit) * 100 < egames * etarget * 2 * VUnit

\* C16: if the production model's generation reaches the candidate's while
\* an evaluation runs (another trainer promoted), that evaluation does not
\* return true.  Within an evaluation the production generation only grows,
\* so it is enough to look at the moment of the return.
C16_StaleEvalNotTrue ==
    ev.pc = "done" /\ get_generation(model) >= get_generation(candidate) =>
        ev.result # "true"

(***************************************************************************)
(* SpecStop: the workers and the trainer of SpecSelfplay with the control   *)
(* thread calling Selfplay::stop.  The games start from a pile of           *)
(* ShortPile stones.                                                        *)
(***************************************************************************)
\* the pile the games of SpecStop and SpecPgn start from
ShortPile == 1

\* every inference thread has left inference_main
InferenceExited == \A w \in Workers : worker[w].pc = "terminated"

\* every training thread has left training_main
TrainingExited == \A t \in SelfplayTrainers : trainer[t].pc = "stopped"

notCli == <<trainVars, bufVars, callVars, concVars, treeVars, selfplayVars,
            evalVars, codecVars, nnVars, exVars>>

\* for (auto& t : inference) t.join(); inference.clear()
stop_join_inference ==
    /\ cli.pc = "join_inference"
    /\ InferenceExited
    /\ cli' = [cli EXCEPT !.pc = "join_training"]
    /\ UNCHANGED notCli

\* the joins of the training threads, not waiting for them
stop_join_training_nowait ==
    /\ cli.pc = "join_training"
    /\ cli' = [cli EXCEPT !.pc = "set_stopped"]
    /\ UNCHANGED notCli

\* for (auto& t : training) t.join(); training.clear()
stop_join_training ==
    /\ cli.pc = "join_training"
    /\ TrainingExited
    /\ cli' = [cli EXCEPT !.pc = "set_stopped"]
    /\ UNCHANGED notCli

\* status.code(STOPPED); stop returns
stop_return ==
    /\ cli.pc = "set_stopped"
    /\ status' = "STOPPED"
    /\ cli' = [cli EXCEPT !.pc = "idle"]
    /\ UNCHANGED <<model, model_path, trainer, bufVars, callVars, concVars, treeVars,
                   selfplayVars, evalVars, codecVars, nnVars, exVars>>

InitSpecStop ==
    /\ InitBufferIdle /\ InitCallers /\ InitConc /\ InitTreeIdle /\ InitTrain
    /\ InitSelfplayAt(ShortPile) /\ InitEvalIdle /\ InitCodecIdle /\ InitCli /\ InitNNIdle /\ InitExpandIdle

NextStop ==
    \/ NextSelfplay
    \/ stop
    \/ stop_throws
    \/ stop_join_inference
    \/ stop_join_training
    \/ stop_return

SpecStop == InitSpecStop /\ [][NextStop]_vars

\* C17: a call of stop while the status is not RUNNING throws and leaves
\* the status as it is; a call while RUNNING sets WAITING; the status only
\* ever changes from RUNNING to WAITING and from WAITING to STOPPED, and to
\* STOPPED only when every inference thread and every training thread has
\* exited.
C17_StopOrder ==
    [][/\ status' # status =>
             \/ status = "RUNNING" /\ status' = "WAITING"
             \/ /\ status = "WAITING" /\ status' = "STOPPED"
                /\ InferenceExited /\ TrainingExited
       /\ cli'.stops # cli.stops /\ status # "RUNNING" =>
             status' = status /\ cli'.threw /\ cli'.pc = "idle"
       /\ cli'.stops # cli.stops /\ status = "RUNNING" =>
             status' = "WAITING" /\ ~cli'.threw]_vars

\* stop has returned with STOPPED after a promotion, and a second call of
\* stop has thrown
C17_StoppedThenThrew ==
    /\ status = "STOPPED"
    /\ cli.threw
    /\ cli.stops = 2
    /\ get_generation(model) > 0

(***************************************************************************)
(* FairStop: SpecStop under fair scheduling.  Every thread that can take a  *)
(* step eventually takes one (the threads are std::threads), and an         *)
(* evaluation does not stay undecided for ever (its games terminate).       *)
(***************************************************************************)
\* the steps of worker w that leave its trees alone, but for a reset
WorkerStep(w) ==
    \/ W_loop(w) \/ W_for(w) \/ W_flush_check(w) \/ W_flush(w) \/ W_flush_tag(w)
    \/ W_terminal(w) \/ W_pgn_assign(w) \/ W_pgn_assigned(w) \/ W_pgn_clear(w)
    \/ W_add_entry(w) \/ W_infer(w) \/ W_publish(w)

\* the steps of worker w that search or commit
TreeStep(w) == W_select(w) \/ W_commit(w) \/ W_expand(w)

\* when a step of TreeStep(w) is possible: ENABLED <<TreeStep(w)>>_vars
TreeStepEnabled(w) ==
    \/ worker[w].pc \in {"select", "expand"}
    \/ worker[w].pc = "commit" /\ (games_played < MaxGames \/ status # "RUNNING")

\* weak fairness of TreeStep(w), WF_vars(TreeStep(w)), with its enabling
\* condition written out
FairTreeStep(w) ==
    \/ []<>~TreeStepEnabled(w)
    \/ []<><<TreeStep(w)>>_vars

FairWorker(w) == WF_vars(WorkerStep(w)) /\ FairTreeStep(w)

TrainerStep(t) ==
    \/ Tr_loop(t) \/ Tr_wait(t) \/ Tr_clone(t) \/ Tr_select_batch(t) \/ Tr_train(t)
    \/ E_check(t) \/ E_games(t) \/ Tr_catch(t) \/ Tr_write(t) \/ Tr_read(t)
    \/ Tr_clear(t)
    \/ Tr_accepted(t) \/ Tr_accepted_from(t) \/ Tr_rejected(t)

StopStep == stop_join_inference \/ stop_join_training \/ stop_return

FairStop ==
    /\ SpecStop
    /\ \A w \in Workers : FairWorker(w)
    /\ \A t \in SelfplayTrainers : WF_vars(TrainerStep(t))
    /\ \A t \in SelfplayTrainers : SF_vars(E_games(t) /\ trainer'[t].pc # "eval")
    /\ WF_vars(StopStep)

\* C18: once stop has set WAITING, under fair scheduling and with games that
\* terminate, every worker and every trainer, wherever it is (sleeping,
\* training, inside an evaluation), reaches the test of its outer loop and
\* exits, and stop returns with STOPPED.
C18_StopReturns ==
    status = "WAITING" ~> (status = "STOPPED" /\ InferenceExited /\ TrainingExited)

\* stop has set WAITING while the trainer is inside an evaluation and the
\* worker is in the middle of a pass
C18_StopDuringEvaluation ==
    /\ status = "WAITING"
    /\ \E t \in SelfplayTrainers : trainer[t].pc = "eval_games"
    /\ \E w \in Workers : worker[w].pc \in {"select", "commit", "add", "expand"}

(***************************************************************************)
(* SpecPgn: the control thread asks for the PGN of the next finished game  *)
(* (Selfplay::get_next_pgn, the "pgn" command) while the search worker and *)
(* the trainer run.  ret_pgn is a std::string shared without a lock: the   *)
(* worker's assignment takes two steps, and a read between them finds the  *)
(* string partly written.                                                  *)
(***************************************************************************)
\* the calls of get_next_pgn the control thread makes
MaxRequests == 2

\* wants_pgn = true
get_next_pgn ==
    /\ cli.pc = "idle"
    /\ cli.req < MaxRequests
    /\ status = "RUNNING"
    /\ games_played < MaxGames
    /\ wants_pgn' = TRUE
    /\ cli' = [cli EXCEPT !.pc = "poll", !.req = @ + 1]
    /\ UNCHANGED <<worker, trees, treeops, partial_trajectories, ret_pgn, appended,
                   games_played, trainVars, bufVars, callVars, concVars, treeVars,
                   evalVars, codecVars, nnVars, exVars>>

\* while (wants_pgn) sleep: the test that finds the flag cleared
get_next_pgn_poll ==
    /\ cli.pc = "poll"
    /\ ~wants_pgn
    /\ cli' = [cli EXCEPT !.pc = "read"]
    /\ UNCHANGED notCli

\* return ret_pgn
get_next_pgn_return ==
    /\ cli.pc = "read"
    /\ cli' = [cli EXCEPT !.pc = "idle", !.ret = ret_pgn]
    /\ UNCHANGED notCli

InitSpecPgn ==
    /\ InitBufferIdle /\ InitCallers /\ InitConc /\ InitTreeIdle /\ InitTrain
    /\ InitSelfplayAt(ShortPile) /\ InitEvalIdle /\ InitCodecIdle /\ InitCli /\ InitNNIdle /\ InitExpandIdle

NextPgn ==
    \/ NextSelfplay
    \/ \E w \in Workers : W_pgn_assign(w)
    \/ \E w \in Workers : W_pgn_assigned(w)
    \/ \E w \in Workers : W_pgn_clear(w)
    \/ get_next_pgn
    \/ get_next_pgn_poll
    \/ get_next_pgn_return

SpecPgn == InitSpecPgn /\ [][NextPgn]_vars

\* C19: the string a call of get_next_pgn returns is the PGN a worker
\* wrote for that very call: the complete PGN of a game that ended after
\* the call set wants_pgn, never what ret_pgn held before or while the
\* worker was assigning it.
C19_ReturnsPgnOfRequest ==
    (cli.pc = "idle" /\ cli.req > 0) =>
        \E w \in Workers : [req |-> cli.req, pgn |-> cli.ret] \in worker[w].served

(***************************************************************************)
(* FairPgn: SpecPgn with every thread scheduled again and again, the       *)
(* polling control thread included, and evaluations that come to a         *)
(* decision.                                                               *)
(***************************************************************************)
PollStep == get_next_pgn_poll \/ get_next_pgn_return

FairPgn ==
    /\ SpecPgn
    /\ \A w \in Workers : FairWorker(w)
    /\ \A t \in SelfplayTrainers : WF_vars(TrainerStep(t))
    /\ \A t \in SelfplayTrainers : SF_vars(E_games(t) /\ trainer'[t].pc # "eval")
    /\ WF_vars(PollStep)

\* C20: while the run goes on, every call of get_next_pgn returns, and the
\* request flag the call set is cleared again (only a worker at the end of
\* a game clears it).
C20_RequestReturns ==
    /\ (cli.pc = "poll") ~> (cli.pc = "idle")
    /\ wants_pgn ~> ~wants_pgn

\* a call has returned after a worker answered it at the end of a game
C20_RequestAnswered ==
    /\ cli.pc = "idle" /\ cli.req > 0 /\ status = "RUNNING" /\ ~wants_pgn
    /\ \E w \in Workers : \E e \in worker[w].served : e.req = cli.req

(***************************************************************************)
(* SpecNN: one NN handle (src/src/nn/nn.cpp) called by several threads.    *)
(* mut is a std::shared_mutex; the module's parameters are NNParts tensors *)
(* that forward, save and load go through one after the other.  A tensor   *)
(* is named by the generation it belongs to, so the handle is whole when   *)
(* every tensor carries the handle's generation.                           *)
(***************************************************************************)
\* the threads calling the handle
NumNNThreads == 2

\* the calls each thread makes at most
MaxNNCalls == 2

\* the largest generation, trained or stored in a file
MaxNNGeneration == 2

\* the tensors of the module
NNParts == 2

NNThreads == 1 .. NumNNThreads

NNOps == {"infer", "clone", "get_generation", "write", "read", "train"}

\* what read can find at path: no file, an archive without the generation
\* key, an archive whose tensors do not all load, a complete archive
NNFiles ==
    {[kind |-> "missing", generation |-> 0], [kind |-> "nokey", generation |-> 0]}
    \cup {[kind |-> k, generation |-> g] : k \in {"bad", "good"}, g \in 1 .. MaxNNGeneration}

NoNNFile == [kind |-> "missing", generation |-> 0]

\* NN::NN: generation = 0 and a fresh module
InitNN ==
    nn = [mut |-> [writer |-> 0, readers |-> {}],
          generation |-> 0,
          weights |-> [k \in 1 .. NNParts |-> 0],
          \* history: a read has thrown after it had written to the handle
          torn |-> FALSE,
          th |-> [t \in NNThreads |->
                    [pc |-> "idle", op |-> "infer", file |-> NoNNFile, k |-> 1,
                     obs_generation |-> 0,
                     obs_weights |-> [k \in 1 .. NNParts |-> 0],
                     \* history: the handle when the call took the lock
                     pre |-> [generation |-> 0, weights |-> [k \in 1 .. NNParts |-> 0]],
                     calls |-> 0]]]

notNN == <<bufVars, callVars, concVars, treeVars, trainVars, selfplayVars, evalVars,
           codecVars, cliVars, exVars>>

SetNNThread(t, rec) == [nn EXCEPT !.th[t] = rec]

\* the lock an operation takes: train and read take mut.lock(), the others
\* mut.lock_shared()
NNExclusive(op) == op \in {"train", "read"}

\* a thread calls an operation of the handle
NN_call(t) ==
    /\ nn.th[t].pc = "idle"
    /\ nn.th[t].calls < MaxNNCalls
    /\ \E op \in NNOps : \E f \in NNFiles :
          /\ op = "train" => nn.generation < MaxNNGeneration
          /\ op # "read" => f = NoNNFile
          /\ nn' = SetNNThread(t, [nn.th[t] EXCEPT
                       !.pc = IF NNExclusive(op) THEN "lock" ELSE "lock_shared",
                       !.op = op, !.file = f, !.k = 1, !.calls = @ + 1])
    /\ UNCHANGED notNN

\* mut.lock_shared() that does not wait for the writer
NN_lock_shared_nowait(t) ==
    /\ nn.th[t].pc = "lock_shared"
    /\ nn' = [nn EXCEPT
                 !.mut.readers = @ \cup {t},
                 !.th[t].pc = IF nn.th[t].op \in {"infer", "write"} THEN "weights"
                              ELSE "generation"]
    /\ UNCHANGED notNN

\* mut.lock_shared(): infer l.164, write l.202, NN(NN*) l.129,
\* get_generation (nn.h l.54)
NN_lock_shared(t) ==
    /\ nn.th[t].pc = "lock_shared"
    /\ nn.mut.writer = 0
    /\ nn' = [nn EXCEPT
                 !.mut.readers = @ \cup {t},
                 !.th[t].pc = IF nn.th[t].op \in {"infer", "write"} THEN "weights"
                              ELSE "generation",
                 !.th[t].pre = [generation |-> nn.generation, weights |-> nn.weights]]
    /\ UNCHANGED notNN

\* mut.lock() that does not wait for the readers
NN_lock_nowait(t) ==
    /\ nn.th[t].pc = "lock"
    /\ nn.mut.writer = 0
    /\ nn' = [nn EXCEPT
                 !.mut.writer = t,
                 !.th[t].pc = IF nn.th[t].op = "read" THEN "load_from" ELSE "step",
                 !.th[t].pre = [generation |-> nn.generation, weights |-> nn.weights]]
    /\ UNCHANGED notNN

\* mut.lock(): read l.215, train l.235
NN_lock(t) ==
    /\ nn.th[t].pc = "lock"
    /\ nn.mut.writer = 0
    /\ nn.mut.readers = {}
    /\ nn' = [nn EXCEPT
                 !.mut.writer = t,
                 !.th[t].pc = IF nn.th[t].op = "read" THEN "load_from" ELSE "step",
                 !.th[t].pre = [generation |-> nn.generation, weights |-> nn.weights]]
    /\ UNCHANGED notNN

\* the read of generation: int ret = generation (get_generation),
\* generation = other->generation (NN(NN*)), a.write("generation", ...)
NN_observe_generation(t) ==
    /\ nn.th[t].pc = "generation"
    /\ nn' = SetNNThread(t, [nn.th[t] EXCEPT
                 !.obs_generation = nn.generation,
                 !.pc = IF nn.th[t].op = "clone" THEN "weights" ELSE "unlock_shared"])
    /\ UNCHANGED notNN

\* one tensor of mod->forward (infer), torch::save (NN(NN*)), mod->save (write)
NN_observe_weights(t) ==
    LET k == nn.th[t].k
    IN  /\ nn.th[t].pc = "weights"
        /\ nn' = SetNNThread(t, [nn.th[t] EXCEPT
                     !.obs_weights[k] = nn.weights[k],
                     !.k = IF k < NNParts THEN k + 1 ELSE 1,
                     !.pc = IF k < NNParts THEN "weights"
                            ELSE IF nn.th[t].op = "write" THEN "generation"
                            ELSE "unlock_shared"])
        /\ UNCHANGED notNN

\* mut.unlock_shared(), and the call returns
NN_unlock_shared(t) ==
    /\ nn.th[t].pc = "unlock_shared"
    /\ nn' = [nn EXCEPT !.mut.readers = @ \ {t}, !.th[t].pc = "idle"]
    /\ UNCHANGED notNN

\* read: i.load_from(path)
NN_read_load_from(t) ==
    /\ nn.th[t].pc = "load_from"
    /\ nn' = SetNNThread(t, [nn.th[t] EXCEPT
                 !.pc = IF nn.th[t].file.kind = "missing" THEN "catch" ELSE "key"])
    /\ UNCHANGED notNN

\* read: i.read("generation", genvalue)
NN_read_key(t) ==
    /\ nn.th[t].pc = "key"
    /\ nn' = SetNNThread(t, [nn.th[t] EXCEPT
                 !.pc = IF nn.th[t].file.kind = "nokey" THEN "catch" ELSE "set_generation"])
    /\ UNCHANGED notNN

\* read: generation = genvalue.toInt()
NN_read_generation(t) ==
    /\ nn.th[t].pc = "set_generation"
    /\ nn' = [nn EXCEPT !.generation = nn.th[t].file.generation,
                        !.th[t].pc = "load"]
    /\ UNCHANGED notNN

\* read: mod->load(i), one tensor; in an archive whose tensors do not all
\* load, any of them can be the one that throws
NN_read_load(t) ==
    LET k == nn.th[t].k
    IN  /\ nn.th[t].pc = "load"
        /\ \/ /\ nn.th[t].file.kind = "bad"
              /\ nn' = [nn EXCEPT !.th[t].pc = "catch", !.th[t].k = 1, !.torn = TRUE]
           \/ /\ nn.th[t].file.kind = "good" \/ k < NNParts
              /\ nn' = [nn EXCEPT
                           !.weights[k] = nn.th[t].file.generation,
                           !.th[t].k = IF k < NNParts THEN k + 1 ELSE 1,
                           !.th[t].pc = IF k < NNParts THEN "load" ELSE "unlock"]
        /\ UNCHANGED notNN

\* read: catch (exception& e) { mut.unlock(); throw e; }
NN_read_catch(t) ==
    /\ nn.th[t].pc = "catch"
    /\ nn' = [nn EXCEPT !.mut.writer = 0, !.th[t].pc = "thrown"]
    /\ UNCHANGED notNN

\* the caller of read handles the exception
NN_read_thrown(t) ==
    /\ nn.th[t].pc = "thrown"
    /\ nn' = SetNNThread(t, [nn.th[t] EXCEPT !.pc = "idle"])
    /\ UNCHANGED notNN

\* train: optimizer.step() on one tensor
NN_train_step(t) ==
    LET k == nn.th[t].k
    IN  /\ nn.th[t].pc = "step"
        /\ nn' = [nn EXCEPT
                     !.weights[k] = nn.generation + 1,
                     !.th[t].k = IF k < NNParts THEN k + 1 ELSE 1,
                     !.th[t].pc = IF k < NNParts THEN "step" ELSE "incr"]
        /\ UNCHANGED notNN

\* train: ++generation
NN_train_generation(t) ==
    /\ nn.th[t].pc = "incr"
    /\ nn' = [nn EXCEPT !.generation = @ + 1, !.th[t].pc = "unlock"]
    /\ UNCHANGED notNN

\* mut.unlock(), and the call returns
NN_unlock(t) ==
    /\ nn.th[t].pc = "unlock"
    /\ nn' = [nn EXCEPT !.mut.writer = 0, !.th[t].pc = "idle"]
    /\ UNCHANGED notNN

InitSpecNN ==
    /\ InitBufferIdle /\ InitCallers /\ InitConc /\ InitTreeIdle /\ InitTrain
    /\ InitSelfplay /\ InitEvalIdle /\ InitCodecIdle /\ InitCli /\ InitNN /\ InitExpandIdle

NextNN ==
    \/ \E t \in NNThreads : NN_call(t)
    \/ \E t \in NNThreads : NN_lock_shared(t)
    \/ \E t \in NNThreads : NN_lock(t)
    \/ \E t \in NNThreads : NN_observe_generation(t)
    \/ \E t \in NNThreads : NN_observe_weights(t)
    \/ \E t \in NNThreads : NN_unlock_shared(t)
    \/ \E t \in NNThreads : NN_read_load_from(t)
    \/ \E t \in NNThreads : NN_read_key(t)
    \/ \E t \in NNThreads : NN_read_generation(t)
    \/ \E t \in NNThreads : NN_read_load(t)
    \/ \E t \in NNThreads : NN_read_catch(t)
    \/ \E t \in NNThreads : NN_read_thrown(t)
    \/ \E t \in NNThreads : NN_train_step(t)
    \/ \E t \in NNThreads : NN_train_generation(t)
    \/ \E t \in NNThreads : NN_unlock(t)

SpecNN == InitSpecNN /\ [][NextNN]_vars

\* the thread is between taking and releasing the handle's lock
NNInside(t) ==
    nn.th[t].pc \in {"generation", "weights", "unlock_shared", "load_from", "key",
                     "set_generation", "load", "catch", "step", "incr", "unlock"}

\* C21: a train or a read on the handle runs with no other call of the
\* handle inside its locked section (no infer, clone, get_generation,
\* write, train or read); infers overlap only with calls that take the
\* shared lock.
C21_ModelLockDiscipline ==
    \A t \in NNThreads : \A u \in NNThreads \ {t} :
        (NNInside(t) /\ NNExclusive(nn.th[t].op)) => ~NNInside(u)

\* two forward passes of infer overlap
C21_InfersOverlap ==
    \E t \in NNThreads : \E u \in NNThreads \ {t} :
        /\ nn.th[t].op = "infer" /\ nn.th[t].pc = "weights"
        /\ nn.th[u].op = "infer" /\ nn.th[u].pc = "weights"

\* what the call of t has seen of the handle is one generation's: every
\* tensor it went through, and the generation it read, carry one number
NNObservedWhole(t) ==
    LET o == nn.th[t]
    IN  /\ \A k \in 1 .. NNParts : o.obs_weights[k] = o.obs_weights[1]
        /\ o.op \in {"clone", "write"} => o.obs_generation = o.obs_weights[1]

\* C22: as long as every read loaded its whole archive (the read of a
\* promotion does), every infer, clone and write that has gone through
\* the handle has seen the weights of one generation, with that
\* generation where it reads it; a get_generation sees the generation of
\* the weights the handle holds at that moment.
C22_PromotionAtomicForReaders ==
    ~nn.torn =>
        \A t \in NNThreads :
            /\ (nn.th[t].pc = "unlock_shared" /\ nn.th[t].op # "get_generation")
                  => NNObservedWhole(t)
            /\ (nn.th[t].pc = "unlock_shared" /\ nn.th[t].op = "get_generation")
                  => \A k \in 1 .. NNParts : nn.weights[k] = nn.th[t].obs_generation

\* a clone has copied the handle a read had loaded, while the next read
\* waits for the clone to release the lock
C22_CloneAfterRead ==
    \E t \in NNThreads : \E u \in NNThreads \ {t} :
        /\ nn.th[t].op = "clone" /\ nn.th[t].pc = "unlock_shared"
        /\ nn.th[t].obs_generation > 0
        /\ nn.th[u].op = "read" /\ nn.th[u].pc = "lock" /\ nn.th[u].calls > 1
        /\ ~nn.torn

\* the step by which the read of t throws to its caller
NNReadThrows(t) == nn.th[t].pc = "catch" /\ nn'.th[t].pc = "thrown"

\* C24: when read throws, the handle's generation and weights are what
\* they were before the call, and the lock is released.
C24_FailedReadRestores ==
    [][\A t \in NNThreads :
          NNReadThrows(t) =>
              /\ nn'.generation = nn.th[t].pre.generation
              /\ nn'.weights = nn.th[t].pre.weights
              /\ nn'.mut.writer = 0]_vars

\* C24, the part that holds: a read that throws releases the lock, and one
\* that throws before generation is assigned (no file, no generation key)
\* leaves generation and weights as they were.
C24_FailedReadReleasesLock ==
    [][\A t \in NNThreads :
          NNReadThrows(t) =>
              /\ nn'.mut.writer = 0
              /\ nn.th[t].file.kind \in {"missing", "nokey"} =>
                    /\ nn'.generation = nn.th[t].pre.generation
                    /\ nn'.weights = nn.th[t].pre.weights]_vars

(***************************************************************************)
(* The trainer's bookkeeping around an evaluation (SpecTrain).             *)
(***************************************************************************)
\* C23: when eval throws, the trainer takes the rejected branch: the catch
\* block sets eval_result to false, and the round ends with the production
\* model and the buffer as they are, target_count raised by target_incr
\* and the trainer back at the top of its loop.
C23_EvalThrowIsRejection ==
    [][\A t \in Trainers :
          /\ (trainer[t].pc = "caught" /\ trainer'[t].pc # "caught") =>
                /\ trainer'[t].pc = "rejected"
                /\ ~trainer'[t].eval_result
                /\ model' = model
                /\ UNCHANGED bufVars
          /\ (trainer[t].threw /\ trainer[t].pc = "rejected"
                              /\ trainer'[t].pc # "rejected") =>
                /\ trainer'[t].pc = "loop"
                /\ trainer'[t].target_count = trainer[t].target_count + target_incr
                /\ model' = model
                /\ UNCHANGED bufVars]_vars

\* the evaluation of a candidate has thrown and the trainer is about to
\* end the round
C23_EvalThrew ==
    \E t \in Trainers :
        /\ trainer[t].threw
        /\ trainer[t].pc = "rejected"
        /\ get_generation(trainer[t].cmodel) > get_generation(model)

\* the trainer is in a training round, before the evaluation
InTrainingRound(t) == trainer[t].pc \in {"clone", "select_batch", "train"}

\* C27: a trainer enters a training round (clone, select_batch, train) only
\* by the test that finds count() >= target_count; its target_count is
\* never below the capacity; and whenever a trainer is in a training round
\* at least as many tuples as the capacity have been added.
C27_TrainingGate ==
    [][\A t \in Trainers :
          /\ trainer[t].target_count >= size
          /\ trainer'[t].target_count >= size
          /\ InTrainingRound(t) => Len(added) >= size
          /\ InTrainingRound(t)' => Len(added') >= size
          /\ (~InTrainingRound(t) /\ InTrainingRound(t)') =>
                /\ trainer[t].pc = "wait"
                /\ count >= trainer[t].target_count]_vars

\* a trainer trains on a full buffer
C27_TrainingOnFullBuffer ==
    \E t \in Trainers :
        /\ trainer[t].pc = "train"
        /\ Len(added) >= size
        /\ Len(trainer[t].batch) = trajectories

\* C28: after an accepted candidate target_count becomes
\* max(size, count() + target_incr) and target_from becomes count(), each
\* count() read after the clear; after a rejected candidate target_count
\* grows by target_incr; target_incr is size * rpb_train_pct / 100.
C28_TargetBookkeeping ==
    [][\A t \in Trainers :
          /\ target_incr = (size * rpb_train_pct) \div 100
          /\ (trainer[t].pc = "clear" /\ trainer'[t].pc # "clear") =>
                trainer'[t].pc = "accepted"
          /\ (trainer[t].pc = "accepted" /\ trainer'[t].pc # "accepted") =>
                /\ trainer'[t].target_count = Max(size, count + target_incr)
                /\ trainer'[t].pc = "accepted_from"
          /\ (trainer[t].pc = "accepted_from" /\ trainer'[t].pc # "accepted_from") =>
                /\ trainer'[t].target_from = count
                /\ trainer'[t].target_count = trainer[t].target_count
          /\ (trainer[t].pc = "rejected" /\ trainer'[t].pc # "rejected") =>
                trainer'[t].target_count = trainer[t].target_count + target_incr]_vars

\* an accepted candidate has set the target on the cleared buffer, where
\* the capacity is the larger term, and an earlier rejection had raised it
C28_TargetAfterClear ==
    \E t \in Trainers :
        /\ trainer[t].pc = "accepted_from"
        /\ count + target_incr < size
        /\ trainer[t].target_count = size
        /\ get_generation(model) > 0

\* the adds made before the last clear: total counts the adds since then
AddsBeforeClear == Len(added) - total

\* C29: once a promotion has cleared the buffer, no batch a trainer draws
\* holds a tuple added before that clear (the k-th add stores a tuple
\* tagged k).
C29_NoStaleBatchAfterClear ==
    [][\A t \in Trainers :
          (/\ trainer[t].pc = "select_batch"
           /\ trainer'[t].pc = "train"
           /\ AddsBeforeClear > 0) =>
              \A i \in 1 .. Len(trainer'[t].batch) :
                  trainer'[t].batch[i].input > AddsBeforeClear]_vars

(***************************************************************************)
(* SpecFault: SpecStop's workers and trainer, with a call in the worker's  *)
(* loop that throws.  inference_main (src/kami/selfplay.cpp) has no        *)
(* handler, so the exception leaves the thread's function and the runtime  *)
(* calls std::terminate: the process ends, every thread with it.           *)
(***************************************************************************)
\* Status::_message: no statement of the program calls Status::message
status_message == ""

\* model->infer or trees[i].expand throws (infer: "policy sum contains a
\* zero", "contains NaN"; expand: "softmax sums to", "NaN policy detected")
W_throws(w) ==
    /\ worker[w].pc \in {"infer", "expand"}
    /\ worker' = [u \in Workers |->
                    [worker[u] EXCEPT !.pc = IF u = w THEN "failed" ELSE "aborted"]]
    /\ trainer' = [t \in Trainers |->
                     IF t \in SelfplayTrainers
                        THEN [trainer[t] EXCEPT !.pc = "aborted"]
                        ELSE trainer[t]]
    /\ UNCHANGED <<status, model, model_path, trees, treeops, partial_trajectories,
                   wants_pgn, ret_pgn, appended, games_played, bufVars, callVars,
                   concVars, treeVars, evalVars, codecVars, cliVars, nnVars, exVars>>

InitSpecFault == InitSpecStop

NextFault ==
    \/ NextSelfplay
    \/ \E w \in Workers : W_throws(w)

SpecFault == InitSpecFault /\ [][NextFault]_vars

\* C25: a fatal error in one search worker ends that worker only: no other
\* worker and no trainer is ended by it, and the failure is in the status
\* slot.
C25_WorkerFaultContained ==
    \A w \in Workers :
        worker[w].pc = "failed" =>
            /\ \A u \in Workers \ {w} : worker[u].pc # "aborted"
            /\ \A t \in SelfplayTrainers : trainer[t].pc # "aborted"
            /\ status_message # ""

SubtreeOf(t, a) == {c \in DOMAIN t.nodes : c # <<>> /\ c[1] = a}

\* C30: a push for which the root has a child makes that child the root (the
\* node with no parent), keeps n, w, p and the children of every node of
\* that child's subtree, removes the root's other children with all below
\* them, and advances the environment by that one action.
C30_PushFrame ==
    [][(lastop' = "push" /\ tree' # tree) =>
          \E a \in {c[1] : c \in {k \in DOMAIN tree.nodes : Len(k) = 1}} :
             /\ tree'.nodes[<<>>] = tree.nodes[<<a>>]
             /\ DOMAIN tree'.nodes = {Tail(c) : c \in SubtreeOf(tree, a)}
             /\ \A c \in SubtreeOf(tree, a) :
                   /\ tree'.nodes[Tail(c)] = tree.nodes[c]
                   /\ children(tree'.nodes, Tail(c))
                        = [i \in 1 .. Len(children(tree.nodes, c)) |->
                              Tail(children(tree.nodes, c)[i])]
             /\ tree'.env.history = Append(tree.env.history, a)
             /\ tree'.env.start = tree.env.start
             /\ turn(tree'.env) = 0 - turn(tree.env)
             /\ tree'.target = nullptr]_vars

\* a push has just dropped a sibling and kept a child that has children
C30_PushedWithSubtree ==
    /\ lastop = "push"
    /\ Len(actions(pre)) = 2
    /\ tree.env.history = Append(pre.history, tree.nodes[<<>>].action)
    /\ children(tree.nodes, <<>>) # <<>>
    /\ mcts_n(tree) >= 2

(***************************************************************************)
(* MCTS::pick below the alpha threshold (SpecTree).                        *)
(***************************************************************************)
\* C31: with no selection pending and a root that has children, every action
\* pick(alpha) can return for alpha < 0.1 is the action of a root child
\* whose visit count is the largest among the root's children.
C31_PickArgmax ==
    (~tree.dangling /\ tree.target = nullptr /\ children(tree.nodes, <<>>) # <<>>) =>
        LET kids == children(tree.nodes, <<>>)
        IN  \A a \in pick(tree, TRUE) :
                \E i \in 1 .. Len(kids) :
                    /\ tree.nodes[kids[i]].action = a
                    /\ \A j \in 1 .. Len(kids) :
                          tree.nodes[kids[j]].n <= tree.nodes[kids[i]].n

(***************************************************************************)
(* SpecExpand: the arithmetic of one MCTS::expand call, with the options   *)
(* of the MCTS constructor, the network's answer and the noise drawn.      *)
(***************************************************************************)
\* x <= y for rationals with positive denominators
RatLeq(x, y) == x[1] * y[2] <= y[1] * x[2]

RatLess(x, y) == x[1] * y[2] < y[1] * x[2]

RECURSIVE RatSum(_)
RatSum(h) == IF h = <<>> THEN <<0, 1>> ELSE RatAdd(h[1], RatSum(Tail(h)))

\* mcts_noise_weight: none, the default 0.05, all noise
NoiseWeights == {<<0, 1>>, <<1, 20>>, <<1, 1>>}

\* bootstrap_weight / 100
BootstrapWeights == {<<0, 1>>, <<1, 2>>, <<1, 1>>}

\* bootstrap_amp_pct / 100: the default 75 and a configured 150
BootstrapAmps == {<<3, 4>>, <<3, 2>>}

\* the network's value and Env::bootstrap_value, both clamped to [-1, 1]
UnitValues == {<<0 - 1, 1>>, <<0, 1>>, <<1, 1>>}

\* value *= target->turn; if (!disable_bootstrap && bootstrap_weight > 0)
\* value = (1 - bootstrap_weight) * value + bootstrap_weight *
\* env.bootstrap_value(window) * bootstrap_amp
expand_value(bw, amp, value, tturn, bv, db) ==
    LET v1 == RatMul(value, <<tturn, 1>>)
    IN  IF ~db /\ bw[1] > 0
           THEN RatAdd(RatMul(RatSub(<<1, 1>>, bw), v1), RatMul(RatMul(bw, bv), amp))
           ELSE v1

\* what Node::backprop adds to w: 0.5f + (value * turn) / 2.0f
backprop_w(value, nturn) ==
    RatAdd(<<1, 2>>, RatMul(RatMul(value, <<nturn, 1>>), <<1, 2>>))

\* a leaf about to be expanded below a root visited once
InitExpand ==
    \E nw \in NoiseWeights, bw \in BootstrapWeights, amp \in BootstrapAmps,
       acts \in {<<1>>, <<1, 2>>}, policy \in [{1, 2} -> 0 .. 2],
       noise \in Noises, value \in UnitValues, tturn \in {0 - 1, 1},
       bv \in UnitValues, db \in BOOLEAN :
        /\ SumSeq([j \in 1 .. Len(acts) |-> policy[acts[j]]]) > 0
        /\ ex = [pc |-> "called", noise_weight |-> nw, bootstrap_weight |-> bw,
                 bootstrap_amp |-> amp, acts |-> acts, policy |-> policy,
                 noise |-> noise, value |-> value, bv |-> bv, db |-> db,
                 p |-> <<>>, v |-> <<0, 1>>, k |-> 1,
                 path |-> <<[n |-> 0, w |-> <<0, 1>>, turn |-> tturn],
                            [n |-> 1, w |-> <<1, 2>>, turn |-> 0 - tturn]>>]

notExpand == <<bufVars, callVars, concVars, treeVars, trainVars, selfplayVars,
               evalVars, codecVars, cliVars, nnVars>>

\* expand: the children's priors and the value handed to backprop
X_expand ==
    /\ ex.pc = "called"
    /\ ex' = [ex EXCEPT
          !.pc = "backprop",
          !.p = [i \in 1 .. Len(ex.acts) |->
                    child_p(ex.noise_weight, ex.policy, ex.noise, ex.acts, i)],
          !.v = expand_value(ex.bootstrap_weight, ex.bootstrap_amp, ex.value,
                             ex.path[1].turn, ex.bv, ex.db)]
    /\ UNCHANGED notExpand

\* Node::backprop on the next node of the path to the root
X_backprop ==
    /\ ex.pc = "backprop"
    /\ ex' = [ex EXCEPT
          !.path[ex.k].n = @ + 1,
          !.path[ex.k].w = RatAdd(@, backprop_w(ex.v, ex.path[ex.k].turn)),
          !.k = @ + 1,
          !.pc = IF ex.k = Len(ex.path) THEN "done" ELSE "backprop"]
    /\ UNCHANGED notExpand

InitSpecExpand ==
    /\ InitBufferIdle /\ InitCallers /\ InitConc /\ InitTreeIdle /\ InitTrain
    /\ InitSelfplay /\ InitEvalIdle /\ InitCodecIdle /\ InitCli /\ InitNNIdle
    /\ InitExpand

NextExpand == X_expand \/ X_backprop

SpecExpand == InitSpecExpand /\ [][NextExpand]_vars

\* C32 as stated: the priors of the created children sum to 1 and each lies
\* strictly between 0 and 1, for any k >= 1.
C32_PriorsStrictlyInside ==
    ex.pc \in {"backprop", "done"} =>
        /\ RatSum(ex.p) = <<1, 1>>
        /\ \A i \in 1 .. Len(ex.p) :
              RatLess(<<0, 1>>, ex.p[i]) /\ RatLess(ex.p[i], <<1, 1>>)

\* C32, amended: the priors of the created children sum to 1 and each lies
\* in [0, 1]; each lies strictly between 0 and 1 when there are at least
\* two legal moves and either noise_weight is positive or the policy is
\* positive on every legal move.
C32_PriorsOnSimplex ==
    ex.pc \in {"backprop", "done"} =>
        /\ RatSum(ex.p) = <<1, 1>>
        /\ \A i \in 1 .. Len(ex.p) :
              RatLeq(<<0, 1>>, ex.p[i]) /\ RatLeq(ex.p[i], <<1, 1>>)
        /\ (/\ Len(ex.acts) >= 2
            /\ \/ ex.noise_weight[1] > 0
               \/ \A j \in 1 .. Len(ex.acts) : ex.policy[ex.acts[j]] > 0)
           => \A i \in 1 .. Len(ex.p) :
                 RatLess(<<0, 1>>, ex.p[i]) /\ RatLess(ex.p[i], <<1, 1>>)

\* two children got different priors under the default noise weight
C32_TwoPriors ==
    /\ ex.pc = "done"
    /\ Len(ex.p) = 2
    /\ ex.noise_weight = <<1, 20>>
    /\ ex.p[1] # ex.p[2]

\* C33: every node of the path keeps its value sum within [0, n]; a
\* backprop adds 1 to n and a value in [0, 1] to w.
C33_ValueSumWithinVisits ==
    ex.pc \in {"backprop", "done"} =>
        /\ RatLeq(<<0, 1>>, backprop_w(ex.v, 1)) /\ RatLeq(backprop_w(ex.v, 1), <<1, 1>>)
        /\ \A j \in 1 .. Len(ex.path) :
              /\ RatLeq(<<0, 1>>, ex.path[j].w)
              /\ RatLeq(ex.path[j].w, <<ex.path[j].n, 1>>)

(***************************************************************************)
(* The turn signs of the tree (SpecTree).                                  *)
(***************************************************************************)
\* C34: whenever no selection is pending, the root's turn is the negated
\* side to move of the environment, and every node below the root has the
\* negated turn of its parent; from the constructor on, through select,
\* expand, push and reset.
C34_TurnSigns ==
    /\ tree.target = nullptr => tree.nodes[<<>>].turn = 0 - turn(tree.env)
    /\ \A c \in DOMAIN tree.nodes :
          c # <<>> => tree.nodes[c].turn = 0 - tree.nodes[parent(c)].turn

\* after a push the new root has a grandchild and black is to move
C34_PushedTwoLevels ==
    /\ lastop = "push"
    /\ tree.target = nullptr
    /\ turn(tree.env) = 0 - 1
    /\ \E c \in DOMAIN tree.nodes : Len(c) = 2

(***************************************************************************)
(* The candidate's colour across the games of kami::eval (SpecEval).       *)
(***************************************************************************)
\* C35: each time a game on tree i ends, the tree is reset and
\* candidate_turns[i] becomes the negation of the value it had during the
\* game that ended.
C35_RolesRotate ==
    [][ev'.games = ev.games + 1 =>
          /\ etrees'[ev.i] = reset(etrees[ev.i])
          /\ ev'.candidate_turns[ev.i] = 0 - ev.candidate_turns[ev.i]]_vars

(***************************************************************************)
(* The two batches of a round of kami::eval (SpecEval).                    *)
(***************************************************************************)
\* C36: when a round's inference starts, row b of each model's input buffer
\* holds the leaf observation of the tree registered at index b of the same
\* model's target list, for every b below that model's batch size.
C36_BatchRouting ==
    (ev.pc = "infer_cur" /\ ev.j = 0) =>
        /\ \A b \in 0 .. (ev.cur_batch_size - 1) :
              ev.cur_inputs[b] = observe(etrees[ev.cur_targets[b]].env)
        /\ \A b \in 0 .. (ev.cd_batch_size - 1) :
              ev.cd_inputs[b] = observe(etrees[ev.cd_targets[b]].env)

(***************************************************************************)
(* The uncommitted trajectory entries of a search worker (SpecSelfplay).   *)
(***************************************************************************)
\* C37: at every boundary of the worker's outer loop, each tree holds as
\* many trajectory entries as its environment has plies at the root, and
\* the worker's partial counter, as it is published, is their sum.
C37_PartialsMatchPlies ==
    \A w \in Workers :
        worker[w].pc = "loop" =>
            /\ \A i \in TreeSlots :
                  /\ trees[w][i].target = nullptr
                  /\ Len(worker[w].trajectories[i]) = ply(trees[w][i].env)
            /\ worker[w].partials =
                  SumSeq([j \in 1 .. ibatch |-> Len(worker[w].trajectories[j - 1])])
            /\ partial_trajectories[w] = worker[w].partials

\* a loop boundary with a game in progress on one tree, after a game ended
C37_BoundaryMidGame ==
    \E w \in Workers :
        /\ worker[w].pc = "loop"
        /\ games_played >= 1
        /\ \E i \in TreeSlots : Len(worker[w].trajectories[i]) >= 1

(***************************************************************************)
(* A push for an action the root has no child for (SpecTree).              *)
(***************************************************************************)
\* C38: a push that fails leaves the root, its children with their subtrees
\* and the environment as they were before the call.
C38_FailedPushChangesNothing ==
    [][(~tree.dangling /\ lastop' = "push_throws") =>
          /\ tree'.nodes = tree.nodes
          /\ tree'.env = tree.env
          /\ ~tree'.dangling]_vars

(***************************************************************************)
(* Promotions of several trainers through one model_path (SpecTrain).      *)
(***************************************************************************)
\* C39: the weights and the generation a trainer's promotion loads into the
\* production model are those of that trainer's own accepted candidate.
C39_PromotesOwnCandidate ==
    [][\A t \in Trainers :
          Promotes(t) =>
              /\ model'.weights = trainer[t].cmodel.weights
              /\ model'.generation = trainer[t].cmodel.generation]_vars

(***************************************************************************)
(* The tuples added between two training rounds of a trainer (SpecTrain).  *)
(***************************************************************************)
\* C40: when a trainer begins a training round that is not its first, at
\* least target_incr tuples have been added to the buffer since it began
\* the round before.
C40_FreshTuplesBetweenRounds ==
    [][\A t \in Trainers :
          (/\ trainer[t].pc = "wait"
           /\ trainer'[t].pc = "clone"
           /\ trainer[t].started >= 0) =>
              Len(added) - trainer[t].started >= target_incr]_vars

=============================================================================
